---- MODULE Spec2Model ----
(***************************************************************************)
(* A model of the emotion-cube pipeline: DMAC channel 1 (dmac.rs), the     *)
(* VIF1 packet parser (vif1.rs), the VU1 interpreter (vu1.rs) and the      *)
(* software rasterizer (gs_rasterizer.rs).                                 *)
(*                                                                         *)
(* Number representations (TLC integers are 32-bit signed):                *)
(*   u128  a sequence of 16 base-256 digits, most significant digit first  *)
(*   u32   (tags, instruction slots) a pair <<hi, lo>> of 16-bit halves    *)
(*   u64   (instructions) <<upper, lower>>, each a u32                     *)
(*   f32   its IEEE-754 bit pattern read as a signed 32-bit integer        *)
(*   i16   an integer in -32768..32767                                     *)
(*                                                                         *)
(* Memories: data_mem is the function from the slots that do not hold      *)
(* (0.0, 0.0, 0.0, 0.0), the fill of Vu1::new, to what they hold, read     *)
(* with MemGet and written with MemSet; code_mem is its first              *)
(* VU1_MICRO.len() slots, the only ones run_until_xgkick fetches           *)
(* (vu1.rs:312), the others hold 0; the framebuffer is the colour it was   *)
(* last filled with and the function from the pixel indices written since  *)
(* to their colour, read with PixelAt.                                     *)
(***************************************************************************)
EXTENDS Integers, Sequences, FiniteSets, TLC

VARIABLES
    build,      \* the build that runs: width of usize and overflow checking
    panicked,   \* TRUE once a Rust panic (a wasm trap) has ended the run
    ram,        \* EE RAM, the `ram: &[u8]` handed to Dmac::transfer
    dmac,       \* struct Dmac
    vif1,       \* struct Vif1 (its fifo included)
    data_mem,   \* Vu1::data_mem, the 1024-slot vector-register memory
                \* (the slots that are not all zero)
    vu1,        \* struct Vu1 without its two memories: vf, vi, acc, q, pc, div_busy
    code_mem,   \* Vu1::code_mem (the slots a run can fetch)
    run,        \* the call of run_until_xgkick in progress: its local `cycles`,
                \* the value returned, and (history) how it ended and how many
                \* instructions it executed
    fb,         \* struct Framebuffer
    gs,         \* history: the last framebuffer operation, its triangle, the
                \* colour last cleared to, the triangles drawn since
    last,       \* history: the last operation, its pre-state and what it handled
    kicks,      \* history: the number of kicks so far
    core        \* struct EmulatorCore's counters, the producer's frame counter
                \* and the position of the step_frame call in progress

vuVars == <<vu1, code_mem, run>>

gsVars == <<fb, gs>>

vars == <<build, panicked, ram, dmac, vif1, data_mem, vuVars, gsVars, last,
          kicks, core>>

----------------------------------------------------------------------------
(* Bounds of the model *)

\* quadwords of EE RAM the model holds
RamQw == 3
\* the FIFO is not kicked beyond this many queued quadwords
MaxFifo == 4
\* kicks per run
MaxKicks == 2
\* calls of run_until_xgkick per run
MaxRuns == 2
\* triangles drawn between two clears
MaxTris == 3

\* calls of step_frame
MaxFrames == 2

----------------------------------------------------------------------------
(* Helpers *)

Rev(s) == [i \in 1..Len(s) |-> s[Len(s) + 1 - i]]

Zeros(n) == [i \in 1..n |-> 0]

RECURSIVE Flatten(_)
Flatten(ss) == IF ss = <<>> THEN <<>> ELSE Head(ss) \o Flatten(Tail(ss))

\* mutant: the bytes read most significant first (from_be_bytes)
from_le_bytes_be(bytes) == bytes

\* u128::from_le_bytes: byte 0 is the least significant digit
from_le_bytes(bytes) == Rev(bytes)

\* u128::to_le_bytes
to_le_bytes(qw) == Rev(qw)

\* f32::from_le_bytes: the four bytes are the bit pattern, least significant first
f32_from_le_bytes(b) ==
    LET top == IF b[4] >= 128 THEN b[4] - 256 ELSE b[4]
    IN  top * 16777216 + b[3] * 65536 + b[2] * 256 + b[1]

\* (qw & 0xFFFF_FFFF) as u32: the four least significant digits, as <<hi, lo>>
LowWord(qw) == <<qw[13] * 256 + qw[14], qw[15] * 256 + qw[16]>>

\* (w >> k) & (2^n - 1) of a u32 w = <<hi, lo>>, for k = 0 and n <= 16, or k >= 1
Bits(w, k, n) ==
    LET sh == IF k = 0 THEN w[2]
              ELSE IF k <= 16 THEN w[1] * 2^(16 - k) + (w[2] \div 2^k)
              ELSE w[1] \div 2^(k - 16)
    IN  sh % 2^n

----------------------------------------------------------------------------
(* f32 arithmetic on bit patterns (IEEE-754 single precision, round to     *)
(* nearest even), written with integers below 2^31.                        *)

\* number of bits of a natural number
RECURSIVE BitLen(_)
BitLen(n) == IF n = 0 THEN 0 ELSE 1 + BitLen(n \div 2)

\* the pattern without its sign bit
F32Mag(b) == IF b < 0 THEN (b + 2147483647) + 1 ELSE b

F32Sign(b) == IF b < 0 THEN 1 ELSE 0

\* the pattern of sign s and magnitude bits mag
F32Pack(s, mag) == IF s = 1 THEN (mag - 2147483647) - 1 ELSE mag

F32Exp(b) == F32Mag(b) \div 8388608

F32Frac(b) == F32Mag(b) % 8388608

F32IsNaN(b) == F32Exp(b) = 255 /\ F32Frac(b) # 0

F32IsInf(b) == F32Exp(b) = 255 /\ F32Frac(b) = 0

F32IsZero(b) == F32Mag(b) = 0

\* the canonical quiet NaN 0x7FC00000
F32NaN == 255 * 8388608 + 4194304

F32Inf(s) == F32Pack(s, 255 * 8388608)

\* a finite non-zero pattern as <<m, e>>, |value| = m * 2^e, 2^23 <= m < 2^24
F32Unpack(b) ==
    LET m0 == IF F32Exp(b) = 0 THEN F32Frac(b) ELSE 8388608 + F32Frac(b)
        e0 == IF F32Exp(b) = 0 THEN -149 ELSE F32Exp(b) - 150
        k  == 24 - BitLen(m0)
    IN  <<m0 * 2^k, e0 - k>>

\* round sig * 2^e (plus, when sticky, a non-zero part below sig's last bit)
\* to the nearest f32, ties to even; sig < 2^31, and sig keeps at least 26
\* bits whenever sticky is set
F32Round(s, sig, e, sticky) ==
    IF sig = 0 THEN F32Pack(s, 0)
    ELSE
    LET L      == BitLen(sig)
        lsbExp == IF e + L - 24 > -149 THEN e + L - 24 ELSE -149
        shift  == lsbExp - e
        half   == IF shift >= 1 /\ shift <= L THEN 2^(shift - 1) ELSE 1
        kept   == IF shift <= 0 THEN sig * 2^(-shift)
                  ELSE IF shift > L THEN 0
                  ELSE (sig \div half) \div 2
        up     == /\ shift >= 1
                  /\ shift <= L
                  /\ (sig \div half) % 2 = 1
                  /\ (sig % half > 0 \/ sticky \/ kept % 2 = 1)
        r      == IF up THEN kept + 1 ELSE kept
    IN  IF lsbExp + 149 >= 255 THEN F32Inf(s)
        ELSE IF (lsbExp + 149) * 8388608 + r >= 255 * 8388608 THEN F32Inf(s)
        ELSE F32Pack(s, (lsbExp + 149) * 8388608 + r)

F32Neg(b) == F32Pack(1 - F32Sign(b), F32Mag(b))

F32Abs(b) == F32Mag(b)

\* a + b
F32Add(a, b) ==
    IF F32IsNaN(a) \/ F32IsNaN(b) THEN F32NaN
    ELSE IF F32IsInf(a)
         THEN (IF F32IsInf(b) /\ F32Sign(a) # F32Sign(b) THEN F32NaN ELSE a)
    ELSE IF F32IsInf(b) THEN b
    ELSE IF F32IsZero(a) /\ F32IsZero(b)
         THEN (IF F32Sign(a) = 1 /\ F32Sign(b) = 1 THEN a ELSE 0)
    ELSE IF F32IsZero(a) THEN b
    ELSE IF F32IsZero(b) THEN a
    ELSE
    LET big == IF F32Mag(a) >= F32Mag(b) THEN a ELSE b
        sml == IF F32Mag(a) >= F32Mag(b) THEN b ELSE a
        ub  == F32Unpack(big)
        us  == F32Unpack(sml)
        \* big is the larger magnitude, so d >= 0
        d   == ub[2] - us[2]
        A   == ub[1] * 64
        B   == IF d <= 6 THEN us[1] * 2^(6 - d)
               ELSE IF d - 6 >= 25 THEN 0
               ELSE us[1] \div 2^(d - 6)
        st  == d > 6 /\ (d - 6 >= 25 \/ us[1] % 2^(d - 6) # 0)
        same == F32Sign(big) = F32Sign(sml)
        S   == IF same THEN A + B ELSE A - B - (IF st THEN 1 ELSE 0)
    IN  IF S = 0 /\ ~st THEN 0
        ELSE F32Round(F32Sign(big), S, ub[2] - 6, st)

\* a - b
F32Sub(a, b) == IF F32IsNaN(b) THEN F32NaN ELSE F32Add(a, F32Neg(b))

\* a * b
F32Mul(a, b) ==
    LET s == (F32Sign(a) + F32Sign(b)) % 2
    IN  IF F32IsNaN(a) \/ F32IsNaN(b) THEN F32NaN
        ELSE IF F32IsInf(a) \/ F32IsInf(b)
             THEN (IF F32IsZero(a) \/ F32IsZero(b) THEN F32NaN ELSE F32Inf(s))
        ELSE IF F32IsZero(a) \/ F32IsZero(b) THEN F32Pack(s, 0)
        ELSE
        LET ua  == F32Unpack(a)
            ub  == F32Unpack(b)
            a1  == ua[1] \div 4096
            a0  == ua[1] % 4096
            b1  == ub[1] \div 4096
            b0  == ub[1] % 4096
            mid == a1 * b0 + a0 * b1
            low == a0 * b0 + (mid % 4096) * 4096
            Lw  == low % 16777216
            H   == a1 * b1 + (mid \div 4096) + (low \div 16777216)
        IN  F32Round(s, H * 64 + (Lw \div 262144), ua[2] + ub[2] + 18,
                     Lw % 262144 # 0)

\* n more quotient bits of rem / d: <<quotient, remainder>>
RECURSIVE DivBits(_, _, _, _)
DivBits(q, rem, d, n) ==
    IF n = 0 THEN <<q, rem>>
    ELSE LET r2 == 2 * rem
         IN  IF r2 >= d THEN DivBits(2 * q + 1, r2 - d, d, n - 1)
             ELSE DivBits(2 * q, r2, d, n - 1)

\* a / b
F32Div(a, b) ==
    LET s == (F32Sign(a) + F32Sign(b)) % 2
    IN  IF F32IsNaN(a) \/ F32IsNaN(b) THEN F32NaN
        ELSE IF F32IsInf(a) THEN (IF F32IsInf(b) THEN F32NaN ELSE F32Inf(s))
        ELSE IF F32IsInf(b) THEN F32Pack(s, 0)
        ELSE IF F32IsZero(b) THEN (IF F32IsZero(a) THEN F32NaN ELSE F32Inf(s))
        ELSE IF F32IsZero(a) THEN F32Pack(s, 0)
        ELSE
        LET ua == F32Unpack(a)
            ub == F32Unpack(b)
            qr == DivBits(ua[1] \div ub[1], ua[1] % ub[1], ub[1], 26)
        IN  F32Round(s, qr[1], ua[2] - ub[2] - 26, qr[2] # 0)

\* the order of two non-NaN patterns: a key that grows with the value
F32Key(b) == IF b < 0 THEN -F32Mag(b) ELSE b

\* f32::max: the other operand when one is NaN
F32Max(a, b) ==
    IF F32IsNaN(a) THEN b ELSE IF F32IsNaN(b) THEN a
    ELSE IF F32Key(a) < F32Key(b) THEN b ELSE a

\* f32::min
F32Min(a, b) ==
    IF F32IsNaN(a) THEN b ELSE IF F32IsNaN(b) THEN a
    ELSE IF F32Key(b) < F32Key(a) THEN b ELSE a

\* `n as f32` for an integer |n| < 2^31
F32FromInt(n) == IF n < 0 THEN F32Round(1, -n, 0, FALSE) ELSE F32Round(0, n, 0, FALSE)

\* mutant: the fraction is cut off instead of rounded
F32RoundToI32_trunc(b) ==
    IF F32IsNaN(b) \/ F32IsZero(b) THEN 0
    ELSE IF F32IsInf(b) THEN (IF b < 0 THEN -2147483647 - 1 ELSE 2147483647)
    ELSE
    LET u == F32Unpack(b)
        m == u[1]
        e == u[2]
        mag == IF e >= 0 THEN (IF e + 24 > 31 THEN -1 ELSE m * 2^e)
               ELSE IF -e > 25 THEN 0
               ELSE m \div 2^(-e)
    IN  IF mag = -1 THEN (IF b < 0 THEN -2147483647 - 1 ELSE 2147483647)
        ELSE IF b < 0 THEN -mag ELSE mag

\* `x.round() as i32`: half away from zero, saturating, NaN to 0
F32RoundToI32(b) ==
    IF F32IsNaN(b) \/ F32IsZero(b) THEN 0
    ELSE IF F32IsInf(b) THEN (IF b < 0 THEN -2147483647 - 1 ELSE 2147483647)
    ELSE
    LET u == F32Unpack(b)
        m == u[1]
        e == u[2]
        mag == IF e >= 0 THEN (IF e + 24 > 31 THEN -1 ELSE m * 2^e)
               ELSE IF -e > 25 THEN 0
               ELSE (m + 2^(-e - 1)) \div 2^(-e)
    IN  IF mag = -1 THEN (IF b < 0 THEN -2147483647 - 1 ELSE 2147483647)
        ELSE IF b < 0 THEN -mag ELSE mag

\* `x as u32`: truncating, saturating at 0, NaN to 0; for values below 2^31
F32ToU32(b) ==
    IF F32IsNaN(b) \/ F32IsZero(b) \/ b < 0 THEN 0
    ELSE IF F32IsInf(b) THEN 2147483647
    ELSE
    LET u == F32Unpack(b)
    IN  IF u[2] >= 0 THEN (IF u[2] + 24 > 31 THEN 2147483647 ELSE u[1] * 2^u[2])
        ELSE IF -u[2] > 24 THEN 0
        ELSE u[1] \div 2^(-u[2])

----------------------------------------------------------------------------
(* dmac.rs *)

Builds == {"native64", "wasm32_release", "wasm32_debug"}

UsizeBits(b) == IF b = "native64" THEN 64 ELSE 32

\* d1_chcr & 0x100
StrBit(chcr) == (chcr \div 256) % 2

\* d1_chcr & !0x100
ClearStr(chcr) == chcr - 256 * StrBit(chcr)

\* `base + qwc * 16` in usize arithmetic, kept as <<q, r>> = 16*q + r because
\* 16 * qwc does not fit a TLC integer for the counts that overflow a 32-bit
\* usize.  q counts whole quadwords, r = base % 16.
EndQR(base, qwc) == <<(base \div 16) + qwc, base % 16>>

\* `base + qwc * 16` overflows usize: only a 32-bit usize can (u32 operands)
EndOverflows(b, base, qwc) ==
    UsizeBits(b) = 32 /\ EndQR(base, qwc)[1] >= 2^28

\* the value of `end` the build computes (wrapping at 2^32 when usize is 32-bit)
EndComputedQR(b, base, qwc) ==
    LET e == EndQR(base, qwc)
    IN  IF UsizeBits(b) = 32 THEN <<e[1] % (2^28), e[2]>> ELSE e

\* `end > ram.len()` for end = 16*q + r
EndPastLen(e, len) == e[1] > ((len - e[2]) \div 16)

\* the quadword at byte offset off: u128::from_le_bytes(ram[off..off+16])
QwAt(mem, off) == from_le_bytes(SubSeq(mem, off + 1, off + 16))

\* the pushes of `for i in 0..n { fifo.push_back(...) }`
Pushed(mem, base, n) == [i \in 1..n |-> QwAt(mem, base + (i - 1) * 16)]

\* how many iterations of the loop index inside ram before the slice panics
FitQw(len, base) == IF base + 16 > len THEN 0 ELSE (len - base) \div 16

\* Dmac::kick
Dmac_kick(madr, qwc) == [d1_madr |-> madr, d1_qwc |-> qwc, d1_chcr |-> 257]

\* mutant: the start bit is not tested
Dmac_transfer_unguarded(b, d, mem, fifo) ==
    IF EndOverflows(b, d.d1_madr, d.d1_qwc) /\ b = "wasm32_debug"
    THEN [dmac |-> d, fifo |-> fifo, panicked |-> TRUE]
    ELSE IF EndPastLen(EndComputedQR(b, d.d1_madr, d.d1_qwc), Len(mem))
    THEN [dmac |-> [d EXCEPT !.d1_chcr = ClearStr(@)],
          fifo |-> fifo, panicked |-> FALSE]
    ELSE IF d.d1_qwc > FitQw(Len(mem), d.d1_madr)
    THEN [dmac |-> d,
          fifo |-> fifo \o Pushed(mem, d.d1_madr, FitQw(Len(mem), d.d1_madr)),
          panicked |-> TRUE]
    ELSE [dmac |-> [d EXCEPT !.d1_chcr = ClearStr(@)],
          fifo |-> fifo \o Pushed(mem, d.d1_madr, d.d1_qwc),
          panicked |-> FALSE]

\* Dmac::transfer: the result [dmac, fifo, panicked]
Dmac_transfer(b, d, mem, fifo) ==
    LET base == d.d1_madr
        qwc  == d.d1_qwc
        endc == EndComputedQR(b, base, qwc)
    IN  IF StrBit(d.d1_chcr) = 0
        THEN [dmac |-> d, fifo |-> fifo, panicked |-> FALSE]
        ELSE IF EndOverflows(b, base, qwc) /\ b = "wasm32_debug"
        THEN \* overflow check: panic at line 34, nothing done
             [dmac |-> d, fifo |-> fifo, panicked |-> TRUE]
        ELSE IF EndPastLen(endc, Len(mem))
        THEN [dmac |-> [d EXCEPT !.d1_chcr = ClearStr(@)],
              fifo |-> fifo, panicked |-> FALSE]
        ELSE IF qwc > FitQw(Len(mem), base)
        THEN \* end wrapped below ram.len(): the loop pushes until the slice
             \* index at line 43 panics
             [dmac |-> d,
              fifo |-> fifo \o Pushed(mem, base, FitQw(Len(mem), base)),
              panicked |-> TRUE]
        ELSE [dmac |-> [d EXCEPT !.d1_chcr = ClearStr(@)],
              fifo |-> fifo \o Pushed(mem, base, qwc),
              panicked |-> FALSE]

----------------------------------------------------------------------------
(* vif1.rs *)

VuMemSlots == 1024

\* data_mem after Vu1::new: every slot is 0.0 four times
Mem_new == [a \in {} |-> <<0, 0, 0, 0>>]

\* data_mem[a], for a slot a in 0..1023
MemGet(mem, a) == IF a \in DOMAIN mem THEN mem[a] ELSE <<0, 0, 0, 0>>

\* data_mem[a] = val
MemSet(mem, a, val) ==
    [b \in (DOMAIN mem \ {a}) \cup (IF val = <<0, 0, 0, 0>> THEN {} ELSE {a})
        |-> IF b = a THEN val ELSE mem[b]]

\* Option<u16>: <<>> is None, <<x>> is Some(x)
None == <<>>
Some(x) == <<x>>

Vif1_new ==
    [fifo |-> <<>>, cl |-> 1, wl |-> 1, unpack_active |-> FALSE,
     unpack_addr |-> 0, unpack_count |-> 0, mscal_addr |-> None]

\* mutant: the destination wraps at 1024 instead of being range-checked
VifData_wrap(st, qw) ==
    LET bytes == to_le_bytes(qw)
        x == f32_from_le_bytes(SubSeq(bytes, 1, 4))
        y == f32_from_le_bytes(SubSeq(bytes, 5, 8))
        z == f32_from_le_bytes(SubSeq(bytes, 9, 12))
        w == f32_from_le_bytes(SubSeq(bytes, 13, 16))
        v == st.v
        cnt == v.unpack_count - 1
    IN  [v   |-> [v EXCEPT !.unpack_addr = (@ + 1) % 65536,
                           !.unpack_count = cnt,
                           !.unpack_active = (cnt # 0)],
         mem |-> MemSet(st.mem, v.unpack_addr % VuMemSlots, <<x, y, z, w>>),
         log |-> Append(st.log, [qw |-> qw, as |-> "data",
                                 addr |-> v.unpack_addr, stored |-> TRUE])]

\* mutant: the parser returns to idle one quadword early
VifData_early(st, qw) ==
    LET bytes == to_le_bytes(qw)
        x == f32_from_le_bytes(SubSeq(bytes, 1, 4))
        y == f32_from_le_bytes(SubSeq(bytes, 5, 8))
        z == f32_from_le_bytes(SubSeq(bytes, 9, 12))
        w == f32_from_le_bytes(SubSeq(bytes, 13, 16))
        v == st.v
        inr == v.unpack_addr < VuMemSlots
        cnt == v.unpack_count - 1
    IN  [v   |-> [v EXCEPT !.unpack_addr = (@ + 1) % 65536,
                           !.unpack_count = cnt,
                           !.unpack_active = (cnt > 1)],
         mem |-> IF inr THEN MemSet(st.mem, v.unpack_addr, <<x, y, z, w>>)
                 ELSE st.mem,
         log |-> Append(st.log, [qw |-> qw, as |-> "data",
                                 addr |-> v.unpack_addr, stored |-> inr])]

\* the unpacking branch of the loop body (vif1.rs:33-50) on one quadword;
\* st = [v: the parser, mem: data memory, log: what was handled]
VifData(st, qw) ==
    LET bytes == to_le_bytes(qw)
        x == f32_from_le_bytes(SubSeq(bytes, 1, 4))
        y == f32_from_le_bytes(SubSeq(bytes, 5, 8))
        z == f32_from_le_bytes(SubSeq(bytes, 9, 12))
        w == f32_from_le_bytes(SubSeq(bytes, 13, 16))
        v == st.v
        inr == v.unpack_addr < VuMemSlots
        cnt == v.unpack_count - 1
    IN  [v   |-> [v EXCEPT !.unpack_addr = (@ + 1) % 65536,
                           !.unpack_count = cnt,
                           !.unpack_active = (cnt # 0)],
         mem |-> IF inr THEN MemSet(st.mem, v.unpack_addr, <<x, y, z, w>>)
                 ELSE st.mem,
         log |-> Append(st.log, [qw |-> qw, as |-> "data",
                                 addr |-> v.unpack_addr, stored |-> inr])]

\* mutant: an unpack tag with count 0 enters unpack mode
VifTag_unpack_zero(st, qw) ==
    LET tag == LowWord(qw)
        cmd == Bits(tag, 24, 8)
        v   == st.v
        v2  == CASE cmd = 1   -> [v EXCEPT !.wl = Bits(tag, 8, 8),
                                           !.cl = Bits(tag, 0, 8)]
                 [] cmd = 108 -> [v EXCEPT !.unpack_active = TRUE,
                                           !.unpack_addr = Bits(tag, 0, 10),
                                           !.unpack_count = Bits(tag, 16, 8)]
                 [] cmd = 20  -> [v EXCEPT !.mscal_addr =
                                               Some(Bits(tag, 0, 16))]
                 [] OTHER     -> v
    IN  [v   |-> v2,
         mem |-> st.mem,
         log |-> Append(st.log, [qw |-> qw, as |-> "tag",
                                 addr |-> -1, stored |-> FALSE])]

\* mutant: a micro-call tag is recorded only when no request is pending
VifTag_first_request(st, qw) ==
    LET tag == LowWord(qw)
        cmd == Bits(tag, 24, 8)
        v   == st.v
        num  == Bits(tag, 16, 8)
        v2  == CASE cmd = 1   -> [v EXCEPT !.wl = Bits(tag, 8, 8),
                                           !.cl = Bits(tag, 0, 8)]
                 [] cmd = 108 -> IF num > 0
                                 THEN [v EXCEPT !.unpack_active = TRUE,
                                                !.unpack_addr = Bits(tag, 0, 10),
                                                !.unpack_count = num]
                                 ELSE v
                 [] cmd = 20  -> IF v.mscal_addr = None
                                 THEN [v EXCEPT !.mscal_addr =
                                                    Some(Bits(tag, 0, 16))]
                                 ELSE v
                 [] OTHER     -> v
    IN  [v   |-> v2,
         mem |-> st.mem,
         log |-> Append(st.log, [qw |-> qw, as |-> "tag",
                                 addr |-> -1, stored |-> FALSE])]

\* the idle branch (vif1.rs:51-87): the low 32 bits are a tag
VifTag(st, qw) ==
    LET tag == LowWord(qw)
        cmd == Bits(tag, 24, 8)
        v   == st.v
        num  == Bits(tag, 16, 8)
        addr == Bits(tag, 0, 10)
        exec_addr == Bits(tag, 0, 16)
        v2  == CASE cmd = 1   -> [v EXCEPT !.wl = Bits(tag, 8, 8),
                                           !.cl = Bits(tag, 0, 8)]
                 [] cmd = 108 -> IF num > 0
                                 THEN [v EXCEPT !.unpack_active = TRUE,
                                                !.unpack_addr = addr,
                                                !.unpack_count = num]
                                 ELSE v
                 [] cmd = 20  -> [v EXCEPT !.mscal_addr = Some(exec_addr)]
                 [] cmd = 17  -> v
                 [] OTHER     -> v
    IN  [v   |-> v2,
         mem |-> st.mem,
         log |-> Append(st.log, [qw |-> qw, as |-> "tag",
                                 addr |-> -1, stored |-> FALSE])]

\* mutant: the queue is drained from the back
RECURSIVE VifLoop_lifo(_)
VifLoop_lifo(st) ==
    IF st.v.fifo = <<>> THEN st
    ELSE LET n   == Len(st.v.fifo)
             qw  == st.v.fifo[n]
             st1 == [st EXCEPT !.v.fifo = SubSeq(@, 1, n - 1)]
         IN  VifLoop_lifo(IF st1.v.unpack_active THEN VifData(st1, qw)
                          ELSE VifTag(st1, qw))

\* `while let Some(qw) = self.fifo.pop_front()`
RECURSIVE VifLoop(_)
VifLoop(st) ==
    IF st.v.fifo = <<>> THEN st
    ELSE LET qw  == Head(st.v.fifo)
             st1 == [st EXCEPT !.v.fifo = Tail(@)]
         IN  VifLoop(IF st1.v.unpack_active THEN VifData(st1, qw)
                     ELSE VifTag(st1, qw))

\* mutant: every call starts in the idle mode
Vif1_process_idle(v, mem) ==
    VifLoop([v |-> [v EXCEPT !.unpack_active = FALSE], mem |-> mem,
             log |-> <<>>])

\* Vif1::process
Vif1_process(v, mem) == VifLoop([v |-> v, mem |-> mem, log |-> <<>>])

----------------------------------------------------------------------------
(* vu1_program.rs: the instruction encoders and the built-in micro-program *)

\* broadcast components
X == 0
Y == 1
Z == 2
W == 3

\* destination masks
DEST_XYZW == 15
DEST_XY == 12
DEST_X == 8
DEST_Y == 4

\* opcode bases (op9 = base | bc)
ADD == 0
SUB == 4
MADD == 8
MAX == 16
MINI == 20
MUL == 24
MULA == 32
MADDA == 56

\* `val << pos` as a u32, for a field that fits below bit 32
Shl(val, pos) ==
    IF pos >= 16 THEN <<val * 2^(pos - 16), 0>>
    ELSE <<(val * 2^pos) \div 65536, (val * 2^pos) % 65536>>

\* `a | b` of two u32 whose set bits do not overlap
Or(a, b) == <<a[1] + b[1], a[2] + b[2]>>

\* `(x as u32) & (2^n - 1)` of an i16 x: the low n bits of its two's complement
LowBits(x, n) == x % 2^n

ubc(dest, fd, fs, ft, op_base, bc) ==
    Or(Shl(dest, 24), Or(Shl(ft, 19), Or(Shl(fs, 14),
       Or(Shl(fd, 9), Shl(op_base + bc, 0)))))

u_nop == <<0, 511>>

\* mutant: the divide is encoded as a NOP
u_div_nop(fs, fsf, ft, ftf) == u_nop

u_div(fs, fsf, ft, ftf) ==
    Or(Shl(ft, 19), Or(Shl(fs, 14), Or(Shl(fsf * 4 + ftf, 9), Shl(112, 0))))

u_mulq(dest, fd, fs) ==
    Or(Shl(dest, 24), Or(Shl(fs, 14), Or(Shl(fd, 9), Shl(28, 0))))

u_waitq == <<0, 115>>

u_ftoi4(dest, fd, fs) ==
    Or(Shl(dest, 24), Or(Shl(fs, 14), Or(Shl(fd, 9), Shl(380, 0))))

l_nop == <<32768, 0>>

l_iaddiu(vt, vs, imm) ==
    Or(Shl(39, 26), Or(Shl(vt, 21), Or(Shl(vs, 16), Shl(LowBits(imm, 15), 0))))

\* mutant: the branch is encoded as a NOP
l_ibne_never(vs, vt, off) == l_nop

l_ibne(vs, vt, off) ==
    Or(Shl(35, 26), Or(Shl(vs, 21), Or(Shl(vt, 16), Shl(LowBits(off, 11), 0))))

l_xgkick(is) == Or(Shl(50, 26), Shl(is, 16))

l_lqi(ft, is) == Or(Shl(58, 26), Or(Shl(ft, 21), Shl(is, 16)))

\* mutant: the index register is taken from the vector register's number
l_sqi_swapped(fs, it) == Or(Shl(62, 26), Or(Shl(it, 21), Shl(fs % 16, 11)))

l_sqi(fs, it) == Or(Shl(62, 26), Or(Shl(fs, 21), Shl(it, 11)))

\* `i(upper, lower)`: one 64-bit instruction
Instr(upper, lower) == <<upper, lower>>

VU1_MICRO ==
    << Instr(u_nop, l_iaddiu(1, 0, 0)),
       Instr(u_nop, l_iaddiu(6, 0, 36)),
       Instr(u_nop, l_iaddiu(7, 0, 72)),
       Instr(u_nop, l_iaddiu(2, 0, 109)),
       Instr(u_nop, l_iaddiu(5, 0, 108)),
       Instr(u_nop, l_iaddiu(3, 0, 36)),
       Instr(u_nop, l_iaddiu(4, 0, 182)),
       Instr(u_nop, l_lqi(1, 4)),
       Instr(u_nop, l_lqi(2, 4)),
       Instr(u_nop, l_lqi(3, 4)),
       Instr(u_nop, l_lqi(4, 4)),
       Instr(u_nop, l_lqi(5, 4)),
       Instr(u_nop, l_lqi(9, 4)),
       Instr(u_nop, l_lqi(10, 1)),
       Instr(u_nop, l_lqi(11, 6)),
       Instr(u_nop, l_lqi(12, 7)),
       Instr(ubc(DEST_XYZW, 0, 4, 10, MULA, W), l_nop),
       Instr(ubc(DEST_XYZW, 0, 1, 10, MADDA, X), l_nop),
       Instr(ubc(DEST_XYZW, 0, 2, 10, MADDA, Y), l_nop),
       Instr(ubc(DEST_XYZW, 15, 3, 10, MADD, Z), l_nop),
       Instr(u_div(0, W, 15, W), l_nop),
       Instr(ubc(DEST_XYZW, 0, 11, 5, MULA, X), l_nop),
       Instr(ubc(DEST_XYZW, 0, 11, 5, MADDA, Y), l_nop),
       Instr(ubc(DEST_XYZW, 16, 11, 5, MADD, Z), l_nop),
       Instr(ubc(DEST_XYZW, 16, 16, 0, MAX, X), l_nop),
       Instr(ubc(DEST_XYZW, 16, 16, 0, MINI, W), l_nop),
       Instr(ubc(DEST_XYZW, 16, 16, 5, ADD, W), l_nop),
       Instr(ubc(DEST_XYZW, 16, 16, 0, MINI, W), l_nop),
       Instr(ubc(DEST_XYZW, 17, 12, 16, MUL, X), l_nop),
       Instr(u_waitq, l_nop),
       Instr(u_mulq(14, 15, 15), l_nop),
       Instr(ubc(DEST_X, 0, 15, 9, MULA, X), l_nop),
       Instr(ubc(DEST_X, 15, 9, 0, MADD, W), l_nop),
       Instr(ubc(DEST_Y, 15, 15, 9, MUL, Y), l_nop),
       Instr(ubc(DEST_Y, 15, 9, 15, SUB, Y), l_nop),
       Instr(u_ftoi4(DEST_XY, 15, 15), l_nop),
       Instr(u_nop, l_sqi(15, 2)),
       Instr(u_nop, l_sqi(17, 2)),
       Instr(u_nop, l_iaddiu(3, 3, -1)),
       Instr(u_nop, l_ibne(3, 0, -27)),
       Instr(u_nop, l_xgkick(5)) >>

----------------------------------------------------------------------------
(* vu1.rs *)

\* 1.0f32
F32One == 1065353216

\* 16.0f32
F32Sixteen == 1098907648

\* 1e-37f32, the smallest divisor magnitude DIV divides by
DivEps == 34086122

MAX_CYCLES == 100000

\* the address run_until_xgkick returns when it gives up
Fallback == 109

\* Vu1::new, the registers
Vu1_new ==
    [vf |-> [r \in 0..31 |-> <<0, 0, 0, 0>>],
     vi |-> [r \in 0..15 |-> 0],
     acc |-> <<0, 0, 0, 0>>,
     q |-> F32One,
     pc |-> 0,
     div_busy |-> 0]

\* the slots of instruction memory (vu1.rs:26)
CodeSlots == 512

\* Vu1::new, code_mem: the micro-program in the first slots; the slots
\* that are not in the domain hold 0, as Vu1::new leaves the rest of the 512
Code_new == [a \in 0..(Len(VU1_MICRO) - 1) |-> VU1_MICRO[a + 1]]

\* code_mem[a], for a slot a in 0..511
CodeGet(code, a) == IF a \in DOMAIN code THEN code[a] ELSE <<<<0, 0>>, <<0, 0>>>>

\* code_mem[a] = val, for a slot a in 0..511
CodeSet(code, a, val) == (a :> val) @@ code

\* mutant: the sum saturates at the ends of the i16 range
wrapping_add_sat(a, b) ==
    IF a + b > 32767 THEN 32767 ELSE IF a + b < -32768 THEN -32768 ELSE a + b

\* i16::wrapping_add
wrapping_add(a, b) == ((a + b + 32768) % 65536) - 32768

\* `x as usize < 1024` of an i16 x: a negative x converts to a value at the
\* top of the usize range, in every build
InSlots(x) == x >= 0 /\ x < VuMemSlots

\* mutant: register 0 is read from storage like any other
vf_get_raw(v, reg) == v.vf[reg]

vf_get(v, reg) == IF reg = 0 THEN <<0, 0, 0, F32One>> ELSE v.vf[reg]

vf_component(v, reg, comp) == vf_get(v, reg)[comp + 1]

\* lane k (0 = X .. 3 = W) of a destination mask: X is bit 3, W is bit 0
MaskHas(dest, k) == (dest \div 2^(3 - k)) % 2 = 1

\* mutant: the mask is read from its low end, bit 0 for lane X
Masked_reversed(dest, old, val) ==
    [k \in 1..4 |-> IF (dest \div 2^(k - 1)) % 2 = 1 THEN val[k] ELSE old[k]]

Masked(dest, old, val) ==
    [k \in 1..4 |-> IF MaskHas(dest, k - 1) THEN val[k] ELSE old[k]]

vf_set(v, reg, dest, val) ==
    IF reg = 0 THEN v ELSE [v EXCEPT !.vf[reg] = Masked(dest, @, val)]

acc_set(v, dest, val) == [v EXCEPT !.acc = Masked(dest, @, val)]

vi_get(v, reg) == IF reg = 0 THEN 0 ELSE v.vi[reg]

vi_set(v, reg, val) == IF reg # 0 THEN [v EXCEPT !.vi[reg] = val] ELSE v

\* mutant: only a zero divisor is caught
BelowEps_zero_only(den) == F32Mag(den) = 0

\* `den.abs() < 1e-37`: false for a NaN
BelowEps(den) == ~F32IsNaN(den) /\ F32Mag(den) < DivEps

\* one lane of a broadcast operation: a is the lane of VF[fs], s the
\* broadcast component of VF[ft], c the lane of the accumulator
Lane(base, a, s, c) ==
    CASE base = ADD -> F32Add(a, s)
      [] base = SUB -> F32Sub(a, s)
      [] base \in {MADD, MADDA} -> F32Add(c, F32Mul(a, s))
      [] base = MAX -> F32Max(a, s)
      [] base = MINI -> F32Min(a, s)
      [] base \in {MUL, MULA} -> F32Mul(a, s)
      [] OTHER -> 0

\* where the four lanes res of a broadcast operation go (vu1.rs:150-206)
Route(v, base, fd, dest, res) ==
    CASE base \in {ADD, SUB, MADD, MAX, MINI, MUL} ->
            [v |-> v, staged |-> Some(<<fd, dest, res>>)]
      [] base \in {MULA, MADDA} ->
            [v |-> acc_set(v, dest, res), staged |-> None]
      [] OTHER -> [v |-> v, staged |-> None]

\* the countdown a divide starts (vu1.rs:112)
DivLatency == 7

\* exec_upper once the fields are decoded and VF[fs], VF[ft] are read
Upper(v, op9, fd, dest, vfs, vft) ==
    CASE op9 = 511 -> [v |-> v, staged |-> None]
      [] op9 = 112 ->
            [v |-> [v EXCEPT !.q = IF BelowEps(vft[(fd % 4) + 1]) THEN 0
                                   ELSE F32Div(vfs[((fd \div 4) % 4) + 1],
                                               vft[(fd % 4) + 1]),
                             !.div_busy = DivLatency],
             staged |-> None]
      [] op9 = 115 -> [v |-> [v EXCEPT !.div_busy = 0], staged |-> None]
      [] op9 = 28 ->
            [v |-> v,
             staged |-> Some(<<fd, dest,
                               [k \in 1..4 |-> F32Mul(vfs[k], v.q)]>>)]
      [] op9 = 380 ->
            [v |-> v,
             staged |-> Some(<<fd, dest,
                 [k \in 1..4 |->
                     F32RoundToI32(F32Mul(vfs[k], F32Sixteen))]>>)]
      [] OTHER ->
            Route(v, op9 - (op9 % 4), fd, dest,
                  [k \in 1..4 |-> Lane(op9 - (op9 % 4), vfs[k],
                                       vft[(op9 % 4) + 1], v.acc[k])])

\* Vu1::exec_upper: the registers after it and the staged write,
\* None or Some(<<fd, dest, res>>)
exec_upper(v, upper) ==
    Upper(v, Bits(upper, 0, 9), Bits(upper, 9, 5), Bits(upper, 24, 4),
          vf_get(v, Bits(upper, 14, 5)), vf_get(v, Bits(upper, 19, 5)))

\* sign extension of the low n bits of a slot
SignExt(x, n) == IF (x \div 2^(n - 1)) % 2 = 1 THEN x - 2^n ELSE x

\* Vu1::exec_lower: the registers and data memory after it and the effect,
\* <<"None">>, <<"Branch", target>> or <<"XgKick", base>>
exec_lower(v, mem, lower) ==
    LET op6 == Bits(lower, 26, 6)
        r21 == Bits(lower, 21, 5)
        r16 == Bits(lower, 16, 4)
        r11 == Bits(lower, 11, 4)
    IN  CASE op6 = 32 -> [v |-> v, mem |-> mem, effect |-> <<"None">>]
          [] op6 = 58 ->
                LET ft   == r21
                    is   == r16
                    addr == vi_get(v, is)
                    v1   == IF ft # 0 /\ InSlots(addr)
                            THEN [v EXCEPT !.vf[ft] = MemGet(mem, addr)] ELSE v
                IN  [v |-> vi_set(v1, is, wrapping_add(vi_get(v1, is), 1)),
                     mem |-> mem, effect |-> <<"None">>]
          [] op6 = 62 ->
                LET fs   == r21
                    it   == r11
                    addr == vi_get(v, it)
                IN  [v |-> vi_set(v, it, wrapping_add(vi_get(v, it), 1)),
                     mem |-> IF InSlots(addr)
                             THEN MemSet(mem, addr, vf_get(v, fs))
                             ELSE mem,
                     effect |-> <<"None">>]
          [] op6 = 39 ->
                LET vt  == r21 % 16
                    vs  == r16
                    imm == SignExt(Bits(lower, 0, 15), 15)
                IN  [v |-> vi_set(v, vt, wrapping_add(vi_get(v, vs), imm)),
                     mem |-> mem, effect |-> <<"None">>]
          [] op6 = 35 ->
                LET vs  == r21 % 16
                    vt  == r16
                    off == SignExt(Bits(lower, 0, 11), 11)
                IN  [v |-> v, mem |-> mem,
                     effect |-> IF vi_get(v, vs) # vi_get(v, vt)
                                THEN <<"Branch", (v.pc + 1 + off) % 65536>>
                                ELSE <<"None">>]
          [] op6 = 50 ->
                [v |-> v, mem |-> mem,
                 effect |-> <<"XgKick", vi_get(v, r16) % 65536>>]
          [] OTHER -> [v |-> v, mem |-> mem, effect |-> <<"None">>]

\* Vu1::commit_upper
commit_upper(v, staged) ==
    IF staged = None THEN v
    ELSE vf_set(v, staged[1][1], staged[1][2], staged[1][3])

\* no call of run_until_xgkick in progress
Idle == [active |-> FALSE, cycles |-> 0, ret |-> None, exit |-> "none",
         executed |-> 0, calls |-> 0]

\* mutant: the kick returns without advancing pc
Retire_kick_stays(v3, mem, effect, r1) ==
    CASE effect[1] = "None" ->
            [v |-> [v3 EXCEPT !.pc = @ + 1], mem |-> mem, run |-> r1]
      [] effect[1] = "Branch" ->
            [v |-> [v3 EXCEPT !.pc = effect[2]], mem |-> mem, run |-> r1]
      [] effect[1] = "XgKick" ->
            [v |-> v3, mem |-> mem,
             run |-> [r1 EXCEPT !.active = FALSE, !.ret = Some(effect[2]),
                                !.exit = "kick"]]

\* the effect of the lower slot on pc and on the call (vu1.rs:331-342)
Retire(v3, mem, effect, r1) ==
    CASE effect[1] = "None" ->
            [v |-> [v3 EXCEPT !.pc = @ + 1], mem |-> mem, run |-> r1]
      [] effect[1] = "Branch" ->
            [v |-> [v3 EXCEPT !.pc = effect[2]], mem |-> mem, run |-> r1]
      [] effect[1] = "XgKick" ->
            [v |-> [v3 EXCEPT !.pc = @ + 1], mem |-> mem,
             run |-> [r1 EXCEPT !.active = FALSE, !.ret = Some(effect[2]),
                                !.exit = "kick"]]

\* the staged write is committed to what the lower slot l left (vu1.rs:328)
CommitAfter(l, staged, r1) ==
    Retire(commit_upper(l.v, staged), l.mem, l.effect, r1)

\* the lower slot runs on what the upper slot u left (vu1.rs:325)
LowerThenCommit(u, mem, lower, r1) ==
    CommitAfter(exec_lower(u.v, mem, lower), u.staged, r1)

RetireLower(l, r1) == Retire(l.v, l.mem, l.effect, r1)

CommitThenLower(u, mem, lower, r1) ==
    RetireLower(exec_lower(commit_upper(u.v, u.staged), mem, lower), r1)

\* mutant: the countdown is left to the divide and the stall alone
ExecInstr_no_countdown(v, mem, code, r) ==
    LowerThenCommit(
        exec_upper(v, CodeGet(code, v.pc)[1]),
        mem, CodeGet(code, v.pc)[2], [r EXCEPT !.cycles = @ + 1, !.executed = @ + 1])

\* mutant: the staged write is committed before the lower slot runs
ExecInstr_commit_first(v, mem, code, r) ==
    CommitThenLower(
        exec_upper([v EXCEPT !.div_busy = IF @ > 0 THEN @ - 1 ELSE @],
                   CodeGet(code, v.pc)[1]),
        mem, CodeGet(code, v.pc)[2], [r EXCEPT !.cycles = @ + 1, !.executed = @ + 1])

\* one executed instruction (vu1.rs:314-342); r is the call's record
ExecInstr(v, mem, code, r) ==
    LowerThenCommit(
        exec_upper([v EXCEPT !.div_busy = IF @ > 0 THEN @ - 1 ELSE @],
                   CodeGet(code, v.pc)[1]),
        mem, CodeGet(code, v.pc)[2], [r EXCEPT !.cycles = @ + 1, !.executed = @ + 1])

\* mutant: the cap is tested with > instead of >=
RunStep_late(v, mem, code, r) ==
    IF r.cycles > MAX_CYCLES
    THEN [v |-> v, mem |-> mem,
          run |-> [r EXCEPT !.active = FALSE, !.ret = Some(Fallback),
                            !.exit = "cap"]]
    ELSE IF v.pc >= Len(VU1_MICRO)
    THEN [v |-> v, mem |-> mem,
          run |-> [r EXCEPT !.cycles = @ + 1, !.active = FALSE,
                            !.ret = Some(Fallback), !.exit = "bounds"]]
    ELSE ExecInstr(v, mem, code, r)

\* mutant: a program counter past the program wraps into it
RunStep_fetch_wrapped(v, mem, code, r) ==
    IF r.cycles >= MAX_CYCLES
    THEN [v |-> v, mem |-> mem,
          run |-> [r EXCEPT !.active = FALSE, !.ret = Some(Fallback),
                            !.exit = "cap"]]
    ELSE ExecInstr([v EXCEPT !.pc = @ % Len(VU1_MICRO)], mem, code, r)

\* mutant: the program counter is tested against the size of instruction
\* memory
RunStep_mem_bound(v, mem, code, r) ==
    IF r.cycles >= MAX_CYCLES
    THEN [v |-> v, mem |-> mem,
          run |-> [r EXCEPT !.active = FALSE, !.ret = Some(Fallback),
                            !.exit = "cap"]]
    ELSE IF v.pc >= CodeSlots
    THEN [v |-> v, mem |-> mem,
          run |-> [r EXCEPT !.cycles = @ + 1, !.active = FALSE,
                            !.ret = Some(Fallback), !.exit = "bounds"]]
    ELSE ExecInstr(v, mem, code, r)

\* one iteration of the loop of run_until_xgkick
RunStep(v, mem, code, r) ==
    IF r.cycles >= MAX_CYCLES
    THEN [v |-> v, mem |-> mem,
          run |-> [r EXCEPT !.active = FALSE, !.ret = Some(Fallback),
                            !.exit = "cap"]]
    ELSE IF v.pc >= Len(VU1_MICRO)
    THEN [v |-> v, mem |-> mem,
          run |-> [r EXCEPT !.cycles = @ + 1, !.active = FALSE,
                            !.ret = Some(Fallback), !.exit = "bounds"]]
    ELSE ExecInstr(v, mem, code, r)

----------------------------------------------------------------------------
(* gs_rasterizer.rs *)

FB_W == 640

FB_H == 448

Min2(a, b) == IF a <= b THEN a ELSE b

Max2(a, b) == IF a >= b THEN a ELSE b

\* a | b of two naturals
RECURSIVE BitOr(_, _)
BitOr(a, b) ==
    IF a = 0 THEN b
    ELSE IF b = 0 THEN a
    ELSE (IF a % 2 = 1 \/ b % 2 = 1 THEN 1 ELSE 0) + 2 * BitOr(a \div 2, b \div 2)

\* Framebuffer::new: every pixel is 0xFF_08_0A_14
Framebuffer_new == [fill |-> <<65288, 2580>>, px |-> [j \in {} |-> <<0, 0>>]]

\* mutant: the pixels stay as they are
Framebuffer_clear_keeps(color) == [fill |-> color, px |-> fb.px]

\* Framebuffer::clear, as a new value
Framebuffer_clear(color) == [fill |-> color, px |-> [j \in {} |-> <<0, 0>>]]

\* pixels[j]
PixelAt(f, j) == IF j \in DOMAIN f.px THEN f.px[j] ELSE f.fill

\* mutant: the bounding box is not clamped to the buffer
UsizeMin_nocap(x, cap) == x

\* mutant: the box ends one past the last column and row
UsizeMin_inclusive(x, cap) == IF x < 0 THEN cap + 1 ELSE Min2(x, cap + 1)

\* `(x as usize).min(cap)`: a negative i32 converts to a value above cap
UsizeMin(x, cap) == IF x < 0 THEN cap ELSE Min2(x, cap)

\* mutant: the two products exchanged, which flips the sign
edge_flipped(ax, ay, bx, by, px, py) ==
    (by - ay) * (px - ax) - (bx - ax) * (py - ay)

\* mutant: the point is not taken relative to the first end of the edge
edge_unanchored(ax, ay, bx, by, px, py) == (bx - ax) * py - (by - ay) * px

\* the closure `edge`; the coordinates the model draws keep it far inside i32
edge(ax, ay, bx, by, px, py) == (bx - ax) * (py - ay) - (by - ay) * (px - ax)

\* mutant: the channels packed as 0xFF_RR_GG_BB
Pack_argb(r, g, b) ==
    <<BitOr(BitOr(65280, r % 65536), BitOr((g \div 256) % 65536, b \div 65536)),
      BitOr((g % 256) * 256, b % 65536)>>

\* 0xFF00_0000 | (b << 16) | (g << 8) | r of three u32 below 2^31
Pack(r, g, b) ==
    <<BitOr(BitOr(65280, b % 65536), BitOr((g \div 256) % 65536, r \div 65536)),
      BitOr((g % 256) * 256, r % 65536)>>

\* mutant: the alpha byte is the first vertex's alpha
Shade_alpha(v0, v1, v2, w0, w1, w2, area2f) ==
    LET b0 == F32Div(F32FromInt(-w0), area2f)
        b1 == F32Div(F32FromInt(-w1), area2f)
        b2 == F32Div(F32FromInt(-w2), area2f)
        chan(c0, c1, c2) ==
            F32ToU32(F32Add(F32Add(F32Mul(b0, F32FromInt(c0)),
                                   F32Mul(b1, F32FromInt(c1))),
                            F32Mul(b2, F32FromInt(c2))))
    IN  <<(v0.a * 256) + (chan(v0.b, v1.b, v2.b) % 256),
          ((chan(v0.g, v1.g, v2.g) % 256) * 256)
              + (chan(v0.r, v1.r, v2.r) % 256)>>

\* the colour of a pixel with edge values w0, w1, w2 (gs_rasterizer.rs:70-80)
Shade(v0, v1, v2, w0, w1, w2, area2f) ==
    LET b0 == F32Div(F32FromInt(-w0), area2f)
        b1 == F32Div(F32FromInt(-w1), area2f)
        b2 == F32Div(F32FromInt(-w2), area2f)
        chan(c0, c1, c2) ==
            F32ToU32(F32Add(F32Add(F32Mul(b0, F32FromInt(c0)),
                                   F32Mul(b1, F32FromInt(c1))),
                            F32Mul(b2, F32FromInt(c2))))
    IN  Pack(chan(v0.r, v1.r, v2.r), chan(v0.g, v1.g, v2.g),
             chan(v0.b, v1.b, v2.b))

\* rasterize_triangle, as a new framebuffer value
rasterize_triangle(f, v0, v1, v2) ==
    LET min_x == Max2(Min2(Min2(v0.x, v1.x), v2.x), 0)
        min_y == Max2(Min2(Min2(v0.y, v1.y), v2.y), 0)
        max_x == UsizeMin(Max2(Max2(v0.x, v1.x), v2.x), FB_W - 1)
        max_y == UsizeMin(Max2(Max2(v0.y, v1.y), v2.y), FB_H - 1)
        area2 == edge(v0.x, v0.y, v1.x, v1.y, v2.x, v2.y)
        area2f == F32FromInt(-area2)
        w0(px, py) == edge(v1.x, v1.y, v2.x, v2.y, px, py)
        w1(px, py) == edge(v2.x, v2.y, v0.x, v0.y, px, py)
        w2(px, py) == edge(v0.x, v0.y, v1.x, v1.y, px, py)
        written ==
            { py * FB_W + px : <<px, py>> \in
                { p \in (min_x..max_x) \X (min_y..max_y) :
                    /\ w0(p[1], p[2]) <= 0
                    /\ w1(p[1], p[2]) <= 0
                    /\ w2(p[1], p[2]) <= 0 } }
        colour(j) ==
            Shade(v0, v1, v2, w0(j % FB_W, j \div FB_W), w1(j % FB_W, j \div FB_W),
                  w2(j % FB_W, j \div FB_W), area2f)
    IN  IF area2 >= 0 THEN f
        ELSE [f EXCEPT !.px = [j \in written |-> colour(j)] @@ f.px]

\* no framebuffer operation yet
GsNone == [op |-> "new", tri |-> <<>>, cleared |-> Framebuffer_new.fill,
           drawn |-> 0]

----------------------------------------------------------------------------
(* gif.rs, and the tag ee.rs encodes *)

\* f32::to_bits, as a u32 <<hi, lo>>
to_bits(b) == <<(b \div 65536) % 65536, b % 65536>>

\* `w as i32` of a u32 <<hi, lo>> (and f32::from_bits, in the model's f32)
AsI32(w) ==
    IF w[1] >= 32768 THEN (w[1] - 65536) * 65536 + w[2] ELSE w[1] * 65536 + w[2]

\* 0.5
F32Half == 1056964608

\* 255.0
F32Byte == 1132396544

\* f32::clamp(0.0, 1.0): a NaN stays a NaN
Clamp01(b) ==
    IF F32IsNaN(b) THEN b
    ELSE IF F32Key(b) < 0 THEN 0
    ELSE IF F32Key(b) > F32One THEN F32One
    ELSE b

\* (x.clamp(0.0, 1.0) * 255.0 + 0.5) as u8
Channel(b) == Min2(F32ToU32(F32Add(F32Mul(Clamp01(b), F32Byte), F32Half)), 255)

\* mutant: the two register types change places
GifTagWords_swapped(nloop, eop, pre, prim, nreg, reg0, reg1) ==
    << <<0, nloop + eop * 32768>>,
       <<(prim \div 2) + nreg * 4096, pre * 16384 + (prim % 2) * 32768>>,
       <<0, reg1 + reg0 * 16>>,
       <<0, 0>> >>

\* gif_tag of ee.rs with its literals as parameters: the four words, each a
\* u32 <<hi, lo>>
GifTagWords(nloop, eop, pre, prim, nreg, reg0, reg1) ==
    << <<0, nloop + eop * 32768>>,
       <<(prim \div 2) + nreg * 4096, pre * 16384 + (prim % 2) * 32768>>,
       <<0, reg0 + reg1 * 16>>,
       <<0, 0>> >>

\* ee.rs gif_tag
gif_tag == GifTagWords(36, 1, 1, 11, 2, 5, 1)

\* mutant: the two register descriptors read from each other's bits
GifDecode_regs_swapped(tag_qw) ==
    [nloop    |-> Bits(to_bits(tag_qw[1]), 0, 15),
     pre      |-> Bits(to_bits(tag_qw[2]), 14, 1) # 0,
     prim_raw |-> Bits(to_bits(tag_qw[2]), 15, 11),
     flg      |-> Bits(to_bits(tag_qw[2]), 27, 2),
     nreg     |-> Max2(Bits(to_bits(tag_qw[2]), 28, 4), 1),
     reg0     |-> Bits(to_bits(tag_qw[3]), 4, 4),
     reg1     |-> Bits(to_bits(tag_qw[3]), 0, 4)]

\* the fields parse_gif_packet decodes from the tag slot (gif.rs:34-56)
\* mutant: the packing mode is read from the two bits below the register
\* count, [59:58]
GifDecode_mode_apart(tag_qw) ==
    [nloop    |-> Bits(to_bits(tag_qw[1]), 0, 15),
     pre      |-> Bits(to_bits(tag_qw[2]), 14, 1) # 0,
     prim_raw |-> Bits(to_bits(tag_qw[2]), 15, 11),
     flg      |-> Bits(to_bits(tag_qw[2]), 26, 2),
     nreg     |-> Max2(Bits(to_bits(tag_qw[2]), 28, 4), 1),
     reg0     |-> Bits(to_bits(tag_qw[3]), 0, 4),
     reg1     |-> Bits(to_bits(tag_qw[3]), 4, 4)]

GifDecode(tag_qw) ==
    [nloop    |-> Bits(to_bits(tag_qw[1]), 0, 15),
     pre      |-> Bits(to_bits(tag_qw[2]), 14, 1) # 0,
     prim_raw |-> Bits(to_bits(tag_qw[2]), 15, 11),
     flg      |-> Bits(to_bits(tag_qw[2]), 27, 2),
     nreg     |-> Max2(Bits(to_bits(tag_qw[2]), 28, 4), 1),
     reg0     |-> Bits(to_bits(tag_qw[3]), 0, 4),
     reg1     |-> Bits(to_bits(tag_qw[3]), 4, 4)]

\* the vertex before any register is read (gif.rs:70-75)
Vertex0 == [r |-> 0, g |-> 0, b |-> 0, a |-> 255, x |-> 0, y |-> 0]

\* one data slot qw applied to the vertex (gif.rs:85-101); >> 4 of an i32
\* rounds down
ApplyReg(vtx, reg_id, qw) ==
    CASE reg_id = 1 ->
            [vtx EXCEPT !.r = Channel(qw[1]), !.g = Channel(qw[2]),
                        !.b = Channel(qw[3]), !.a = Channel(qw[4])]
      [] reg_id = 5 ->
            [vtx EXCEPT !.x = AsI32(to_bits(qw[1])) \div 16,
                        !.y = AsI32(to_bits(qw[2])) \div 16]
      [] OTHER -> vtx

\* the inner loop from reg_idx on (gif.rs:77-102): <<vertex, cur>>
RECURSIVE ReadRegs(_, _, _, _, _)
ReadRegs(mem, d, reg_idx, cur, vtx) ==
    IF reg_idx >= d.nreg \/ cur >= VuMemSlots THEN <<vtx, cur>>
    ELSE ReadRegs(mem, d, reg_idx + 1, cur + 1,
                  ApplyReg(vtx, IF reg_idx = 0 THEN d.reg0 ELSE d.reg1,
                           MemGet(mem, cur)))

\* the outer loop with n vertices to go (gif.rs:69-105); rc is what the
\* inner loop returned
RECURSIVE ReadVertices(_, _, _, _, _)
\* mutant: the loop over the vertices ends when no slot is left
PushVertex_until_end(mem, d, n, rc, vertices) ==
    IF rc[1] = Vertex0 /\ rc[2] >= VuMemSlots THEN vertices
    ELSE ReadVertices(mem, d, n - 1, rc[2], Append(vertices, rc[1]))

PushVertex(mem, d, n, rc, vertices) ==
    ReadVertices(mem, d, n - 1, rc[2], Append(vertices, rc[1]))

ReadVertices(mem, d, n, cur, vertices) ==
    IF n = 0 THEN vertices
    ELSE PushVertex(mem, d, n, ReadRegs(mem, d, 0, cur, Vertex0), vertices)

\* mutant: the packing mode is not looked at
ParseTag_any_mode(mem, base_qw, d) ==
    IF d.nloop = 0 THEN [panic |-> FALSE, prims |-> <<>>]
    ELSE [panic |-> FALSE,
          prims |-> << [iip |-> d.pre /\ (d.prim_raw \div 8) % 2 # 0,
                        vertices |-> ReadVertices(mem, d, d.nloop, base_qw + 1,
                                                  <<>>)] >>]

\* parse_gif_packet after the tag is decoded (gif.rs:58-108)
ParseTag(mem, base_qw, d) ==
    IF d.nloop = 0 \/ d.flg # 0 THEN [panic |-> FALSE, prims |-> <<>>]
    ELSE [panic |-> FALSE,
          prims |-> << [iip |-> d.pre /\ (d.prim_raw \div 8) % 2 # 0,
                        vertices |-> ReadVertices(mem, d, d.nloop, base_qw + 1,
                                                  <<>>)] >>]

\* parse_gif_packet: the primitives, or the panic of the tag read
\* `vu_mem[base_qw]` (gif.rs:31) when base_qw is no index of the array
parse_gif_packet(mem, base_qw) ==
    IF base_qw >= VuMemSlots THEN [panic |-> TRUE, prims |-> <<>>]
    ELSE ParseTag(mem, base_qw, GifDecode(MemGet(mem, base_qw)))

\* the colour step_frame clears to, 0xFF_08_0A_14 (lib.rs:90)
Background == <<65288, 2580>>

\* mutant: the groups overlap, each vertex starting a triangle with the
\* two after it
RECURSIVE DrawChunks_strip(_, _)
DrawChunks_strip(f, vs) ==
    IF Len(vs) < 3 THEN f
    ELSE DrawChunks_strip(rasterize_triangle(f, vs[1], vs[2], vs[3]),
                          SubSeq(vs, 2, Len(vs)))

\* `vertices.chunks(3)` with the groups of three rasterized (lib.rs:92-99)
RECURSIVE DrawChunks(_, _)
DrawChunks(f, vs) ==
    IF Len(vs) < 3 THEN f
    ELSE DrawChunks(rasterize_triangle(f, vs[1], vs[2], vs[3]),
                    SubSeq(vs, 4, Len(vs)))

\* `for prim in &prims` (lib.rs:91-100)
RECURSIVE DrawPrims(_, _)
DrawPrims(f, prims) ==
    IF prims = <<>> THEN f
    ELSE DrawPrims(DrawChunks(f, Head(prims).vertices), Tail(prims))

\* the number of calls of rasterize_triangle DrawPrims makes
RECURSIVE CountTris(_)
CountTris(prims) ==
    IF prims = <<>> THEN 0
    ELSE (Len(Head(prims).vertices) \div 3) + CountTris(Tail(prims))

----------------------------------------------------------------------------
(* The quadwords and the kicks the model draws *)

\* 16 bytes in memory order with the tag word in bytes 0..3 and the other
\* twelve bytes set to hi
TagBytes(cmd, b2, b1, b0, hi) == <<b0, b1, b2, cmd>> \o [i \in 1..12 |-> hi]

\* a ring of packet quadwords; RAM holds RamQw consecutive ones of it
QwRing ==
    << TagBytes(108, 2, 255, 255, 0),  \* UNPACK num 2 addr 0x3FF (bits 15..10 set too)
       TagBytes(20, 0, 1, 35, 63),     \* MSCAL 0x0123; as payload w = 0x3F3F3F3F
       TagBytes(108, 1, 0, 5, 7),      \* UNPACK num 1 addr 5
       TagBytes(0, 0, 128, 63, 191),   \* unknown command; as payload a negative w
       TagBytes(1, 0, 2, 4, 0),        \* STCYCL wl 2 cl 4
       TagBytes(108, 0, 0, 9, 0),      \* UNPACK num 0
       TagBytes(17, 0, 0, 0, 1) >>     \* FLUSH

RingAt(k) == QwRing[((k - 1) % Len(QwRing)) + 1]

RamImages ==
    { Flatten([i \in 1..RamQw |-> RingAt(k + i - 1)]) : k \in 1..Len(QwRing) }

\* a second ring: tags that the idle branch ignores (an unknown command
\* with every count and address bit used, an unpack tag with count 0, a
\* flush tag with its low bits set, an unpack command with other format
\* bits) and set-cycle tags, each next to tags that leave a request, an
\* address, a count and stored data behind
IdleRing ==
    << TagBytes(255, 3, 7, 9, 0),      \* unknown command 0xFF
       TagBytes(108, 1, 0, 5, 7),      \* UNPACK num 1 addr 5
       TagBytes(20, 0, 2, 40, 63),     \* MSCAL 0x0228; as payload w = 0x3F3F3F3F
       TagBytes(108, 0, 3, 255, 0),    \* UNPACK num 0 addr 0x3FF
       TagBytes(20, 0, 0, 40, 0),      \* MSCAL 40
       TagBytes(1, 7, 3, 1, 0),        \* STCYCL wl 3 cl 1
       TagBytes(17, 9, 9, 9, 0),       \* FLUSH
       TagBytes(108, 1, 0, 7, 7),      \* UNPACK num 1 addr 7
       TagBytes(109, 1, 0, 5, 191) >>  \* unknown command 0x6D; as payload a negative w

IdleAt(k) == IdleRing[((k - 1) % Len(IdleRing)) + 1]

IdleImages ==
    { Flatten([i \in 1..RamQw |-> IdleAt(k + i - 1)]) : k \in 1..Len(IdleRing) }

MadrSet == {0, 16}

\* counts: in range, past the end, and the count whose byte size wraps a
\* 32-bit usize
QwcSet == 0..(RamQw + 1) \cup {2^28, 2^28 + 1}

\* EmulatorCore::create (lib.rs:44-54) and EmotionEngine::new (ee.rs:284):
\* the counters are 0 and no step_frame call is in progress
Core_new ==
    [frame_count |-> 0, emu_cycles |-> 0, vu1_mat_ops |-> 0, frame |-> 0,
     at |-> "idle"]

NoOp == [op |-> "none", dmac |-> Dmac_kick(0, 0), vif1 |-> Vif1_new,
         vu1 |-> Vu1_new, mem |-> Mem_new, log |-> <<>>]

----------------------------------------------------------------------------
(* Specification: the transfer engine and the packet parser *)

InitDma ==
    /\ build \in Builds
    /\ core = Core_new
    /\ panicked = FALSE
    /\ ram \in RamImages
    /\ dmac = [d1_madr |-> 0, d1_qwc |-> 0, d1_chcr |-> 0]
    /\ vif1 = Vif1_new
    /\ data_mem = Mem_new
    /\ vu1 = Vu1_new
    /\ code_mem = Code_new
    /\ run = Idle
    /\ fb = Framebuffer_new
    /\ gs = GsNone
    /\ last = NoOp
    /\ kicks = 0

\* the pipeline runs in the shipped build
Init ==
    /\ build = "wasm32_release"
    /\ core = Core_new
    /\ panicked = FALSE
    /\ ram \in RamImages \cup IdleImages
    /\ dmac = [d1_madr |-> 0, d1_qwc |-> 0, d1_chcr |-> 0]
    /\ vif1 = Vif1_new
    /\ data_mem = Mem_new
    /\ vu1 = Vu1_new
    /\ code_mem = Code_new
    /\ run = Idle
    /\ fb = Framebuffer_new
    /\ gs = GsNone
    /\ last = NoOp
    /\ kicks = 0

Kick ==
    /\ ~panicked
    /\ kicks < MaxKicks
    /\ kicks' = kicks + 1
    /\ \E madr \in MadrSet, qwc \in QwcSet :
         /\ Len(vif1.fifo) + (IF qwc > RamQw + 1 THEN RamQw ELSE qwc) <= MaxFifo
         /\ dmac' = Dmac_kick(madr, qwc)
         /\ last' = [op |-> "kick", dmac |-> dmac, vif1 |-> vif1,
                     vu1 |-> vu1, mem |-> Mem_new, log |-> <<>>]
    /\ UNCHANGED <<build, core, panicked, ram, vif1, data_mem, vuVars, gsVars>>

Transfer ==
    /\ ~panicked
    /\ ~run.active
    /\ LET r == Dmac_transfer(build, dmac, ram, vif1.fifo)
       IN  /\ dmac' = r.dmac
           /\ vif1' = [vif1 EXCEPT !.fifo = r.fifo]
           /\ panicked' = r.panicked
    /\ last' = [op |-> "transfer", dmac |-> dmac, vif1 |-> vif1,
                vu1 |-> vu1, mem |-> Mem_new, log |-> <<>>]
    /\ UNCHANGED <<build, core, ram, data_mem, vuVars, gsVars, kicks>>

Process ==
    /\ ~panicked
    /\ ~run.active
    /\ LET r == Vif1_process(vif1, data_mem)
       IN  /\ vif1' = r.v
           /\ data_mem' = r.mem
           /\ last' = [op |-> "process", dmac |-> dmac, vif1 |-> vif1,
                       vu1 |-> vu1, mem |-> data_mem, log |-> r.log]
    /\ UNCHANGED <<build, core, panicked, ram, dmac, vuVars, gsVars, kicks>>

Next == Kick \/ Transfer \/ Process

Spec == Init /\ [][Next]_vars

\* the transfer engine alone, in every build
NextDma == Kick \/ Transfer

SpecDma == InitDma /\ [][NextDma]_vars

----------------------------------------------------------------------------
(* Specification: the interpreter on a test instruction (SpecVu) *)

\* the slot before the built-in program's final kick
TestPc == Len(VU1_MICRO) - 2

\* VF01 = (1.0, 2.0, -0.5, 4.0), VF02 = (0.5, 3.0, 0.25, 1.5)
VfPreset ==
    [r \in 0..31 |->
        CASE r = 1 -> <<1065353216, 1073741824, -1090519040, 1082130432>>
          [] r = 2 -> <<1056964608, 1077936128, 1048576000, 1069547520>>
          [] OTHER -> <<0, 0, 0, 0>>]

\* the addresses VI01 starts with: in range, the last slot, the first one
\* out of range, a negative one, and the largest i16
ViAddrs == {5, 1023, 1024, -1, 32767}

ViPreset(a) ==
    [r \in 0..15 |-> CASE r = 1 -> a [] r = 2 -> 7 [] r = 5 -> 108 [] OTHER -> 0]

UpperPalette ==
    { u_nop,
      ubc(DEST_XYZW, 1, 1, 2, ADD, Y),
      ubc(DEST_XY, 1, 1, 2, MUL, X),
      ubc(DEST_XYZW, 0, 1, 2, ADD, W),
      ubc(DEST_X, 3, 1, 2, SUB, Z),
      ubc(DEST_XYZW, 3, 2, 1, MADD, X),
      ubc(DEST_Y, 0, 1, 2, MULA, Y),
      ubc(DEST_XYZW, 0, 2, 1, MADDA, W),
      ubc(DEST_XYZW, 3, 1, 2, MAX, X),
      ubc(DEST_XYZW, 3, 1, 2, MINI, X),
      ubc(0, 3, 1, 2, ADD, X),
      ubc(3, 1, 1, 2, ADD, Y),
      ubc(5, 3, 2, 1, SUB, W),
      u_div(1, Y, 2, Z),
      u_div(1, X, 0, X),
      u_waitq,
      u_mulq(DEST_XYZW, 3, 1),
      u_ftoi4(DEST_XY, 3, 1),
      <<0, 256>> }

LowerPalette ==
    { l_nop,
      l_lqi(1, 1), l_lqi(0, 1), l_lqi(2, 0),
      l_sqi(1, 1), l_sqi(0, 2), l_sqi(1, 0),
      l_iaddiu(0, 1, 3), l_iaddiu(1, 1, -1),
      l_ibne(1, 0, 1), l_ibne(0, 0, 1),
      l_xgkick(1), l_xgkick(0),
      <<0, 0>> }

TestInstrs ==
    (UpperPalette \X {l_nop, l_sqi(1, 1), l_lqi(1, 1)})
        \cup ({u_nop, ubc(DEST_XYZW, 1, 1, 2, ADD, Y),
               ubc(DEST_XYZW, 0, 1, 2, ADD, W)} \X LowerPalette)

\* the reciprocal countdown an earlier call left: none, one that runs out
\* during the call, and the one of a divide in the kick's own instruction
EarlierBusy == {0, 2, DivLatency}

\* the RAM images of the ring that start with an unpack tag
VuRamImages == { Flatten([j \in 1..RamQw |-> RingAt(k + j - 1)]) : k \in {1, 3} }

\* a packet has been kicked; the host has set registers and uploaded one
\* test instruction before the built-in kick
InitVu ==
    /\ build = "wasm32_release"
    /\ core = Core_new
    /\ panicked = FALSE
    /\ ram \in VuRamImages
    /\ \E n \in {RamQw - 1, RamQw} : dmac = Dmac_kick(0, n)
    /\ vif1 = Vif1_new
    /\ data_mem = Mem_new
    /\ \E a \in ViAddrs, b \in EarlierBusy :
          vu1 = [Vu1_new EXCEPT !.vf = VfPreset, !.vi = ViPreset(a),
                                !.div_busy = b]
    /\ \E t \in TestInstrs : code_mem = [Code_new EXCEPT ![TestPc] = t]
    /\ run = Idle
    /\ fb = Framebuffer_new
    /\ gs = GsNone
    /\ last = NoOp
    /\ kicks = 0

\* the caller sets pc (lib.rs:81) and enters run_until_xgkick, once the
\* packet has been delivered
RunStart ==
    /\ ~panicked
    /\ ~run.active
    /\ run.calls < MaxRuns
    /\ StrBit(dmac.d1_chcr) = 0
    /\ vif1.fifo = <<>>
    /\ vu1' = [vu1 EXCEPT !.pc = TestPc]
    /\ run' = [Idle EXCEPT !.active = TRUE, !.calls = run.calls + 1]
    /\ last' = [op |-> "run", dmac |-> dmac, vif1 |-> vif1,
                vu1 |-> vu1, mem |-> Mem_new, log |-> <<>>]
    /\ UNCHANGED <<build, core, panicked, ram, dmac, vif1, data_mem, code_mem, gsVars,
                   kicks>>

\* one iteration of the loop of run_until_xgkick
Cycle ==
    /\ run.active
    /\ \E r \in {RunStep(vu1, data_mem, code_mem, run)} :
          /\ vu1' = r.v
          /\ data_mem' = r.mem
          /\ run' = r.run
    /\ last' = [op |-> "cycle", dmac |-> dmac, vif1 |-> vif1,
                vu1 |-> vu1, mem |-> data_mem, log |-> <<>>]
    /\ UNCHANGED <<build, core, panicked, ram, dmac, vif1, code_mem, gsVars, kicks>>

NextVu == Transfer \/ Process \/ RunStart \/ Cycle

SpecVu == InitVu /\ [][NextVu]_vars

----------------------------------------------------------------------------
(* Specification: one call of run_until_xgkick on looping and on ending *)
(* programs (SpecCap)                                                     *)

\* the built-in program with its last slots replaced: a two-instruction
\* loop that counts, the built-in tail (the branch falls through to the
\* kick), and a branch past the program's end
CapPrograms ==
    { [Code_new EXCEPT ![TestPc - 1] = Instr(u_nop, l_iaddiu(2, 2, 1)),
                       ![TestPc] = Instr(u_nop, l_ibne(1, 0, -2))],
      Code_new,
      [Code_new EXCEPT ![TestPc] = Instr(u_nop, l_ibne(1, 0, 1))] }

InitCap ==
    /\ build = "wasm32_release"
    /\ core = Core_new
    /\ panicked = FALSE
    /\ ram = <<>>
    /\ dmac = [d1_madr |-> 0, d1_qwc |-> 0, d1_chcr |-> 0]
    /\ vif1 = Vif1_new
    /\ data_mem = Mem_new
    /\ vu1 = [Vu1_new EXCEPT !.vf = VfPreset, !.vi = ViPreset(5)]
    /\ code_mem \in CapPrograms
    /\ run = Idle
    /\ fb = Framebuffer_new
    /\ gs = GsNone
    /\ last = NoOp
    /\ kicks = 0

\* the first call
RunFirst == run.calls = 0 /\ RunStart

NextCap == RunFirst \/ Cycle

SpecCap == InitCap /\ [][NextCap]_vars

----------------------------------------------------------------------------
(* Specification: a call of run_until_xgkick and the stages of step_frame *)
(* after it, on packets in data memory (SpecGif)                          *)

\* a tag slot: the four words as the f32 lanes UNPACK stores
TagSlot(words) == [k \in 1..4 |-> AsI32(words[k])]

\* the packing-mode field set in the words of a tag
WithMode(words, flg) ==
    [words EXCEPT ![2] = <<words[2][1] + flg * 2048, words[2][2]>>]

\* an XYZ2 slot: 12.4 fixed point, frac the fraction sixteenths
Pos(x, y, frac) == <<x * 16 + frac, y * 16 + frac, 0, 0>>

\* lanes of an RGBAQ slot: 0.0, 0.5, 1.0, 2.0, -1.0 and a NaN
ColourLanes == <<0, F32Half, F32One, 1073741824, -1082130432, F32NaN>>

Col(r, g, b, a) == <<ColourLanes[r], ColourLanes[g], ColourLanes[b], ColourLanes[a]>>

\* three vertices in position-then-colour order, and in the other order
PosCol3 ==
    << Pos(2, 2, 0), Col(3, 1, 1, 3), Pos(2, 6, 15), Col(1, 3, 1, 3),
       Pos(6, 2, 8), Col(1, 1, 3, 3) >>

ColPos3 ==
    << Col(4, 5, 2, 3), Pos(9, 1, 0), Col(4, 5, 2, 3), Pos(9, 4, 0),
       Col(6, 1, 2, 1), Pos(12, 1, 0) >>

\* a vertex left of and above the buffer: negative fixed-point coordinates
MorePos3 ==
    << Pos(-1, -1, 1), Col(3, 3, 3, 3), Pos(-1, 3, 0), Col(3, 3, 3, 3),
       Pos(3, -1, 0), Col(3, 3, 3, 3) >>

\* a grey triangle wound like PosCol3 that shares the pixels with
\* x >= 2, y >= 2, x + y <= 6 with it
OverPos3 ==
    << Pos(1, 1, 0), Col(2, 2, 2, 3), Pos(1, 5, 0), Col(2, 2, 2, 3),
       Pos(5, 1, 0), Col(2, 2, 2, 3) >>

\* the packets the model puts in data memory: the tag slot, then data slots
GifPackets ==
    { <<TagSlot(GifTagWords(3, 1, 1, 11, 2, 5, 1))>> \o PosCol3,
      <<TagSlot(GifTagWords(3, 0, 0, 3, 2, 1, 5))>> \o ColPos3,
      <<TagSlot(GifTagWords(6, 1, 1, 11, 2, 5, 1))>> \o PosCol3 \o MorePos3,
      <<TagSlot(GifTagWords(4, 1, 1, 11, 2, 5, 1))>> \o PosCol3 \o MorePos3,
      <<TagSlot(GifTagWords(6, 1, 1, 11, 2, 5, 1))>> \o PosCol3 \o OverPos3,
      <<TagSlot(GifTagWords(5, 1, 1, 11, 2, 5, 1))>> \o PosCol3 \o OverPos3,
      <<TagSlot(GifTagWords(2, 1, 1, 11, 2, 5, 1))>> \o PosCol3,
      <<TagSlot(GifTagWords(0, 1, 1, 11, 2, 5, 1))>> \o PosCol3,
      <<TagSlot(WithMode(GifTagWords(3, 1, 1, 11, 2, 5, 1), 1))>> \o PosCol3,
      <<TagSlot(WithMode(GifTagWords(3, 1, 1, 11, 4, 5, 1), 2))>> \o PosCol3,
      <<TagSlot(GifTagWords(3, 1, 1, 11, 3, 5, 1))>> \o PosCol3,
      <<TagSlot(GifTagWords(3, 1, 1, 11, 1, 5, 1))>> \o PosCol3,
      <<TagSlot(GifTagWords(3, 1, 1, 11, 15, 5, 1))>> \o PosCol3,
      <<TagSlot(GifTagWords(3, 1, 1, 11, 2, 0, 15))>> \o PosCol3,
      <<TagSlot(GifTagWords(3, 1, 1, 11, 4, 5, 1))>> \o PosCol3 \o MorePos3,
      <<TagSlot(GifTagWords(3, 1, 0, 2047, 0, 5, 1))>> \o PosCol3,
      << <<0, 0, 0, 0>> >> \o PosCol3 }

\* VI05 before the run: slots inside the memory, near its end, and values
\* whose u16 is no slot
GifBases == {0, 108, 1017, 1021, 1023, 1024, -1, -32768}

\* the built-in program, which kicks VI05, and one whose branch leaves the
\* program, which ends in the fallback
GifPrograms ==
    { Code_new, [Code_new EXCEPT ![TestPc] = Instr(u_nop, l_ibne(1, 0, 1))] }

\* qws stored from slot a on, as UNPACK stores them (vif1.rs:42-45)
RECURSIVE StoreAt(_, _, _)
StoreAt(mem, a, qws) ==
    IF qws = <<>> THEN mem
    ELSE StoreAt(IF a < VuMemSlots THEN MemSet(mem, a, Head(qws)) ELSE mem,
                 a + 1, Tail(qws))

\* the packet lies where the run will report it
InitGif ==
    /\ build = "wasm32_release"
    /\ core = Core_new
    /\ panicked = FALSE
    /\ ram = <<>>
    /\ dmac = [d1_madr |-> 0, d1_qwc |-> 0, d1_chcr |-> 0]
    /\ vif1 = Vif1_new
    /\ \E b \in GifBases, c \in GifPrograms, pkt \in GifPackets :
          /\ vu1 = [Vu1_new EXCEPT !.vf = VfPreset,
                                   !.vi = [ViPreset(5) EXCEPT ![5] = b]]
          /\ code_mem = c
          /\ data_mem = StoreAt(Mem_new,
                                IF c = Code_new THEN b % 65536 ELSE Fallback,
                                pkt)
    /\ run = Idle
    /\ fb = Framebuffer_new
    /\ gs = GsNone
    /\ last = NoOp
    /\ kicks = 0

\* stages 5 and 6 of step_frame (lib.rs:87-100) on what the run returned
Frame ==
    /\ ~panicked
    /\ ~run.active
    /\ run.ret # None
    /\ gs.op # "frame"
    /\ \E g \in {parse_gif_packet(data_mem, run.ret[1])} :
          /\ panicked' = g.panic
          /\ fb' = IF g.panic THEN fb
                   ELSE DrawPrims(Framebuffer_clear(Background), g.prims)
          /\ gs' = [op |-> "frame", tri |-> g.prims,
                    cleared |-> IF g.panic THEN gs.cleared ELSE Background,
                    drawn |-> IF g.panic THEN 0 ELSE CountTris(g.prims)]
    /\ UNCHANGED <<build, core, ram, dmac, vif1, data_mem, vuVars, last, kicks>>

NextGif == RunFirst \/ Cycle \/ Frame

SpecGif == InitGif /\ [][NextGif]_vars

----------------------------------------------------------------------------
(* Specification: one frame's packet delivery and program start (SpecRun) *)

\* a ring of packet quadwords with micro-call tags for the last two slots of
\* the program, the first address past it, the first one past 512 and the
\* largest 16-bit one; the tag after the unpack tag is payload when both
\* are delivered
MscalRing ==
    << TagBytes(20, 0, 0, 39, 0),      \* MSCAL 39
       TagBytes(20, 0, 255, 255, 0),   \* MSCAL 65535
       TagBytes(108, 1, 0, 5, 7),      \* UNPACK num 1 addr 5
       TagBytes(20, 0, 2, 0, 0),       \* MSCAL 512
       TagBytes(20, 0, 0, 40, 0),      \* MSCAL 40
       TagBytes(20, 0, 0, 41, 0),      \* MSCAL 41
       TagBytes(17, 0, 0, 0, 1) >>     \* FLUSH

MscalAt(k) == MscalRing[((k - 1) % Len(MscalRing)) + 1]

MscalImages ==
    { Flatten([i \in 1..RamQw |-> MscalAt(k + i - 1)]) : k \in 1..Len(MscalRing) }

\* the built-in program, and the program with the branch before the final
\* kick retargeted: to -1 (which wraps to 65535), to the first slot past
\* the program, and far past it
RunPrograms ==
    { Code_new,
      [Code_new EXCEPT ![TestPc] = Instr(u_nop, l_ibne(1, 0, -41))],
      [Code_new EXCEPT ![TestPc] = Instr(u_nop, l_ibne(1, 0, 1))],
      [Code_new EXCEPT ![TestPc] = Instr(u_nop, l_ibne(1, 0, 1023))],
      CodeSet([Code_new EXCEPT ![TestPc] = Instr(u_nop, l_ibne(1, 0, 1))],
              Len(VU1_MICRO),
              Instr(ubc(DEST_XYZW, 1, 1, 2, ADD, Y), l_xgkick(1))),
      CodeSet([Code_new EXCEPT ![TestPc] =
                   Instr(u_nop, l_ibne(1, 0, CodeSlots - (TestPc + 2)))],
              CodeSlots - 1, Instr(u_nop, l_sqi(1, 1))) }

\* a packet has been kicked (lib.rs:72)
InitRun ==
    /\ build = "wasm32_release"
    /\ core = Core_new
    /\ panicked = FALSE
    /\ ram \in MscalImages
    /\ \E n \in 1..RamQw : dmac = Dmac_kick(0, n)
    /\ vif1 = Vif1_new
    /\ data_mem = Mem_new
    /\ vu1 = [Vu1_new EXCEPT !.vf = VfPreset, !.vi = ViPreset(5)]
    /\ code_mem \in RunPrograms
    /\ run = Idle
    /\ fb = Framebuffer_new
    /\ gs = GsNone
    /\ last = NoOp
    /\ kicks = 0

\* the recorded start request is taken and the program is entered
\* (lib.rs:81-82), after the process call of the frame
StartRun ==
    /\ ~panicked
    /\ ~run.active
    /\ run.calls = 0
    /\ last.op = "process"
    /\ vu1' = [vu1 EXCEPT !.pc = IF vif1.mscal_addr = None THEN 0
                                 ELSE vif1.mscal_addr[1]]
    /\ vif1' = [vif1 EXCEPT !.mscal_addr = None]
    /\ run' = [Idle EXCEPT !.active = TRUE, !.calls = 1]
    /\ last' = [op |-> "start", dmac |-> dmac, vif1 |-> vif1,
                vu1 |-> vu1, mem |-> Mem_new, log |-> last.log]
    /\ UNCHANGED <<build, core, panicked, ram, dmac, data_mem, code_mem, gsVars,
                   kicks>>

NextRun == Transfer \/ Process \/ StartRun \/ Cycle

SpecRun == InitRun /\ [][NextRun]_vars

----------------------------------------------------------------------------
(* Specification: one divide on drawn operands (SpecDiv) *)

\* divisor lanes around the epsilon: the smallest and the largest
\* subnormal, both zeros, the patterns next below the epsilon with both
\* signs, the epsilon itself and the smallest normal number
DivisorLanes ==
    { <<1, F32Pack(1, DivEps - 1), DivEps, 8388607>>,
      <<0, F32Pack(1, 0), DivEps - 1, 8388608>> }

\* numerator lanes: (1.0, 2.0, -0.5, 4.0) and (NaN, +inf, -inf, 0.0)
NumeratorLanes ==
    { <<1065353216, 1073741824, -1090519040, 1082130432>>,
      <<F32NaN, F32Inf(0), F32Inf(1), 0>> }

\* the reciprocal left by an earlier divide
EarlierQ == {F32One, F32NaN}

\* VF01 and VF02 hold the operands; the slot before the final kick divides
\* one lane of VF01 by one lane of VF02
InitDiv ==
    /\ build = "wasm32_release"
    /\ core = Core_new
    /\ panicked = FALSE
    /\ ram = <<>>
    /\ dmac = [d1_madr |-> 0, d1_qwc |-> 0, d1_chcr |-> 0]
    /\ vif1 = Vif1_new
    /\ data_mem = Mem_new
    /\ \E n \in NumeratorLanes, d \in DivisorLanes, q0 \in EarlierQ :
          vu1 = [Vu1_new EXCEPT !.vf = [VfPreset EXCEPT ![1] = n, ![2] = d],
                                !.vi = ViPreset(5), !.q = q0]
    /\ \E fsf \in X..W, ftf \in X..W :
          code_mem = [Code_new EXCEPT
                          ![TestPc] = Instr(u_div(1, fsf, 2, ftf), l_nop)]
    /\ run = Idle
    /\ fb = Framebuffer_new
    /\ gs = GsNone
    /\ last = NoOp
    /\ kicks = 0

NextDiv == RunFirst \/ Cycle

SpecDiv == InitDiv /\ [][NextDiv]_vars

----------------------------------------------------------------------------
(* Specification: a position through FTOI4, SQI and the XYZ2 decode (SpecFix) *)

\* lane values f, each with k = round(f * 16) and floor(k / 16) worked out
\* by hand: 1.0, -0.5, 0.0, 1/32 and -1/32 (halves round away from zero),
\* 1/64, -0.02, 320.7, -3.3, 3/32 and -3/32, and the two ends of the range,
\* 2^27 - 8 and -2^27
FixCases ==
    { [f |-> 1065353216,  k |-> 16,         q |-> 1],
      [f |-> -1090519040, k |-> -8,         q |-> -1],
      [f |-> 0,           k |-> 0,          q |-> 0],
      [f |-> 1023410176,  k |-> 1,          q |-> 0],
      [f |-> -1124073472, k |-> -1,         q |-> -1],
      [f |-> 1015021568,  k |-> 0,          q |-> 0],
      [f |-> -1130113270, k |-> 0,          q |-> 0],
      [f |-> 1134582170,  k |-> 5131,       q |-> 320],
      [f |-> -1068289229, k |-> -53,        q |-> -4],
      [f |-> 1035993088,  k |-> 2,          q |-> 0],
      [f |-> -1111490560, k |-> -2,         q |-> -1],
      [f |-> 1291845631,  k |-> 2147483520, q |-> 134217720],
      [f |-> -855638016,  k |-> -2147483647 - 1, q |-> -134217728] }

\* the slot of the descriptor and the slot the position is stored to
FixBase == 108

\* slots 38..40 convert VF01 into VF15, store VF15 and kick
FixProgram(dest) ==
    [Code_new EXCEPT ![TestPc - 1] = Instr(u_ftoi4(dest, 15, 1), l_nop),
                     ![TestPc] = Instr(u_nop, l_sqi(15, 2)),
                     ![TestPc + 1] = Instr(u_nop, l_xgkick(5))]

\* a packet of one micro-call tag for slot 38 has been kicked; data memory
\* holds a descriptor of one vertex (position, colour) at slot 108
InitFix ==
    /\ build = "wasm32_release"
    /\ core = Core_new
    /\ panicked = FALSE
    /\ ram = TagBytes(20, 0, 0, TestPc - 1, 0)
    /\ dmac = Dmac_kick(0, 1)
    /\ vif1 = Vif1_new
    /\ data_mem = StoreAt(Mem_new, FixBase,
                          <<TagSlot(GifTagWords(1, 1, 1, 11, 2, 5, 1))>>)
    /\ \E cx \in FixCases, cy \in FixCases :
          vu1 = [Vu1_new EXCEPT
                    !.vf = [VfPreset EXCEPT ![1] = <<cx.f, cy.f, 0, F32One>>,
                                            ![15] = VfPreset[2]],
                    !.vi = [ViPreset(5) EXCEPT ![2] = FixBase + 1,
                                               ![5] = FixBase]]
    /\ \E dest \in {DEST_XY, DEST_XYZW} : code_mem = FixProgram(dest)
    /\ run = Idle
    /\ fb = Framebuffer_new
    /\ gs = GsNone
    /\ last = NoOp
    /\ kicks = 0

NextFix == Transfer \/ Process \/ StartRun \/ Cycle \/ Frame

SpecFix == InitFix /\ [][NextFix]_vars

----------------------------------------------------------------------------
(* ee.rs and lib.rs: the producer's packet and whole frame steps (SpecFrame) *)

PACKET_BASE == 1048576

PACKET_QWC == 125

\* the length of ee_ram
EE_RAM_LEN == 2097152

\* the f32 values of the packet as bit patterns: 0.1, 0.577, 0.2, 320.0,
\* 224.0, and the 1/64 and 1/32 of the matrices the model draws (1.0 with
\* the exponent lowered by 6 and by 5)
F32Tenth == 1036831949

F32Light == 1058256454

F32Ambient == 1045220557

F32HalfWidth == 1134559232

F32HalfHeight == 1130364928

F32Small == F32One - (6 * 8388608)

F32Shift == F32One - (5 * 8388608)

\* u32::to_le_bytes of a word held as an i32 pattern (w32)
w32(val) ==
    <<val % 256, (val \div 256) % 256, (val \div 65536) % 256,
      (val \div 16777216) % 256>>

\* the 16 bytes write_qw and write_f32_qw put down for four words
write_qw(w) == w32(w[1]) \o w32(w[2]) \o w32(w[3]) \o w32(w[4])

\* mutant: every unpack tag announces one quadword more
UnpackQw_one_more(num, addr) ==
    TagBytes(108, num + 1, addr \div 256, addr % 256, 0)

\* the quadword of vif_tag(0x6C, (num << 16) | addr)
UnpackQw(num, addr) == TagBytes(108, num, addr \div 256, addr % 256, 0)

\* six vertices of one face; coordinates and channels are in tenths
Face(n, c, ps) == [k \in 1..6 |-> [pos |-> ps[k], normal |-> n, color |-> c]]

CUBE ==
    Face(<<10, 0, 0>>, <<10, 1, 1>>,
         << <<10, -10, 10>>, <<10, 10, 10>>, <<10, 10, -10>>,
            <<10, -10, 10>>, <<10, 10, -10>>, <<10, -10, -10>> >>)
    \o Face(<<-10, 0, 0>>, <<1, 10, 10>>,
         << <<-10, -10, -10>>, <<-10, 10, -10>>, <<-10, 10, 10>>,
            <<-10, -10, -10>>, <<-10, 10, 10>>, <<-10, -10, 10>> >>)
    \o Face(<<0, 10, 0>>, <<1, 10, 1>>,
         << <<-10, 10, 10>>, <<-10, 10, -10>>, <<10, 10, -10>>,
            <<-10, 10, 10>>, <<10, 10, -10>>, <<10, 10, 10>> >>)
    \o Face(<<0, -10, 0>>, <<10, 1, 10>>,
         << <<-10, -10, -10>>, <<-10, -10, 10>>, <<10, -10, 10>>,
            <<-10, -10, -10>>, <<10, -10, 10>>, <<10, -10, -10>> >>)
    \o Face(<<0, 0, 10>>, <<1, 1, 10>>,
         << <<-10, -10, 10>>, <<10, -10, 10>>, <<10, 10, 10>>,
            <<-10, -10, 10>>, <<10, 10, 10>>, <<-10, 10, 10>> >>)
    \o Face(<<0, 0, -10>>, <<10, 10, 1>>,
         << <<10, -10, -10>>, <<-10, -10, -10>>, <<-10, 10, -10>>,
            <<10, -10, -10>>, <<-10, 10, -10>>, <<10, 10, -10>> >>)

\* the f32 of a table entry: 1.0, -1.0, 0.1 or 0.0
CubeF32(t) ==
    CASE t = 10 -> F32One
      [] t = -10 -> F32Neg(F32One)
      [] t = 1 -> F32Tenth
      [] OTHER -> 0

\* the quadword [t[1], t[2], t[3], w]
CubeQw(t, w) == write_qw(<<CubeF32(t[1]), CubeF32(t[2]), CubeF32(t[3]), w>>)

\* the 125 quadwords of the packet in order (ee.rs:339-405), for the four
\* columns mvp of the frame's matrix
PacketQws(mvp) ==
    <<TagBytes(1, 0, 1, 1, 0),
      UnpackQw(1, 108),
      write_qw(TagSlot(GifTagWords(36, 1, 1, 11, 2, 5, 1))),
      UnpackQw(36, 0)>>
    \o [k \in 1..36 |-> CubeQw(CUBE[k].pos, F32One)]
    \o <<UnpackQw(36, 36)>>
    \o [k \in 1..36 |-> CubeQw(CUBE[k].normal, 0)]
    \o <<UnpackQw(36, 72)>>
    \o [k \in 1..36 |-> CubeQw(CUBE[k].color, F32One)]
    \o <<UnpackQw(4, 182)>>
    \o [c \in 1..4 |-> write_qw(mvp[c])]
    \o <<UnpackQw(1, 186),
         write_qw(<<F32Light, F32Light, F32Light, F32Ambient>>),
         UnpackQw(1, 187),
         write_qw(<<F32HalfWidth, F32HalfHeight, 0, 0>>),
         TagBytes(20, 0, 0, 0, 0),
         TagBytes(17, 0, 0, 0, 0)>>

\* the bytes of the quadwords qws, one after the other
BytesOf(qws) ==
    [i \in 1..(16 * Len(qws)) |-> qws[((i - 1) \div 16) + 1][((i - 1) % 16) + 1]]

\* EmotionEngine::build_packet: the 2000 bytes written at PACKET_BASE
build_packet(mvp) == BytesOf(PacketQws(mvp))

\* the built-in program, and one whose last preamble slot branches past the
\* program, which ends in the fallback before anything is stored
FramePrograms ==
    { Code_new, [Code_new EXCEPT ![12] = Instr(u_nop, l_ibne(5, 0, 28))] }

\* the matrix is a product of rotations by the frame's angles, a
\* translation and a projection, computed with sin, cos and tan; the model
\* draws the four columns instead: a scaling by 1/64 with a shear along z,
\* the same sheared the other way and shifted by 1/32 with w = 2 (the
\* quotient is 0.5), and the zero matrix (the quotient is 0 and every
\* vertex lands on the centre of the screen)
MvpSet ==
    { << <<F32Small, 0, 0, 0>>, <<0, F32Small, 0, 0>>,
         <<F32Small - 8388608, F32Small - 16777216, 0, 0>>,
         <<0, 0, 0, F32One>> >>,
      << <<F32Small, 0, 0, 0>>, <<0, F32Small, 0, 0>>,
         <<F32Neg(F32Small - 8388608), F32Small - 16777216, 0, 0>>,
         <<F32Shift, 0, 0, F32One + 8388608>> >>,
      << <<0, 0, 0, 0>>, <<0, 0, 0, 0>>, <<0, 0, 0, 0>>, <<0, 0, 0, 0>> >> }

\* the quadword at byte offset off of a RAM that is zero outside the bytes
\* win, which start at byte origin
RamQwAt(win, origin, off) ==
    IF off >= origin /\ off + 16 <= origin + Len(win)
    THEN QwAt(win, off - origin)
    ELSE from_le_bytes([i \in 1..16 |-> 0])

PushedAt(win, origin, base, n) ==
    [i \in 1..n |-> RamQwAt(win, origin, base + (i - 1) * 16)]

\* Dmac::transfer on a RAM of len bytes that is zero outside win
Dmac_transfer_at(b, d, win, origin, len, fifo) ==
    IF StrBit(d.d1_chcr) = 0
    THEN [dmac |-> d, fifo |-> fifo, panicked |-> FALSE]
    ELSE IF EndOverflows(b, d.d1_madr, d.d1_qwc) /\ b = "wasm32_debug"
    THEN [dmac |-> d, fifo |-> fifo, panicked |-> TRUE]
    ELSE IF EndPastLen(EndComputedQR(b, d.d1_madr, d.d1_qwc), len)
    THEN [dmac |-> [d EXCEPT !.d1_chcr = ClearStr(@)],
          fifo |-> fifo, panicked |-> FALSE]
    ELSE IF d.d1_qwc > FitQw(len, d.d1_madr)
    THEN [dmac |-> d,
          fifo |-> fifo \o PushedAt(win, origin, d.d1_madr,
                                    FitQw(len, d.d1_madr)),
          panicked |-> TRUE]
    ELSE [dmac |-> [d EXCEPT !.d1_chcr = ClearStr(@)],
          fifo |-> fifo \o PushedAt(win, origin, d.d1_madr, d.d1_qwc),
          panicked |-> FALSE]

\* the counters after build_packet and line 71 of lib.rs
Core_built(c) ==
    [c EXCEPT !.frame = @ + 1, !.emu_cycles = @ + 300000, !.at = "kicked"]

\* mutant: the operation count grows only when the run ended in a kick
Core_ended_by_exit(c, panic) ==
    [c EXCEPT !.vu1_mat_ops = IF run.exit = "kick" THEN @ + 5 ELSE @,
              !.frame_count = IF panic THEN @ ELSE @ + 1,
              !.at = "idle"]

\* the counters after lines 83 and 105 of lib.rs; a panic of the parse ends
\* the call between the two
Core_ended(c, panic) ==
    [c EXCEPT !.vu1_mat_ops = @ + 5,
              !.frame_count = IF panic THEN @ ELSE @ + 1,
              !.at = "idle"]

\* ram holds the 2000 bytes of ee_ram from PACKET_BASE on
InitFrame ==
    /\ build = "wasm32_release"
    /\ core = Core_new
    /\ panicked = FALSE
    /\ ram = [i \in 1..(PACKET_QWC * 16) |-> 0]
    /\ dmac = [d1_madr |-> 0, d1_qwc |-> 0, d1_chcr |-> 0]
    /\ vif1 = Vif1_new
    /\ data_mem = Mem_new
    /\ vu1 = Vu1_new
    /\ code_mem \in FramePrograms
    /\ run = Idle
    /\ fb = Framebuffer_new
    /\ gs = GsNone
    /\ last = NoOp
    /\ kicks = 0

\* step_frame, stage 1 (lib.rs:70-72)
FrameBuild ==
    /\ ~panicked
    /\ core.at = "idle"
    /\ core.frame < MaxFrames
    /\ \E qws \in {PacketQws(mvp) : mvp \in MvpSet} : ram' = BytesOf(qws)
    /\ core' = Core_built(core)
    /\ dmac' = Dmac_kick(PACKET_BASE, PACKET_QWC)
    /\ kicks' = kicks + 1
    /\ last' = [op |-> "kick", dmac |-> dmac, vif1 |-> vif1,
                vu1 |-> vu1, mem |-> Mem_new, log |-> <<>>]
    /\ UNCHANGED <<build, panicked, vif1, data_mem, vuVars, gsVars>>

\* stage 2 (lib.rs:75)
FrameTransfer ==
    /\ ~panicked
    /\ core.at = "kicked"
    /\ \E r \in {Dmac_transfer_at(build, dmac, ram, PACKET_BASE, EE_RAM_LEN,
                                  vif1.fifo)} :
          /\ dmac' = r.dmac
          /\ vif1' = [vif1 EXCEPT !.fifo = r.fifo]
          /\ panicked' = r.panicked
    /\ core' = [core EXCEPT !.at = "transferred"]
    /\ last' = [op |-> "transfer", dmac |-> dmac, vif1 |-> vif1,
                vu1 |-> vu1, mem |-> Mem_new, log |-> <<>>]
    /\ UNCHANGED <<build, ram, data_mem, vuVars, gsVars, kicks>>

\* stage 3 (lib.rs:78)
FrameProcess ==
    /\ ~panicked
    /\ core.at = "transferred"
    /\ \E r \in {Vif1_process(vif1, data_mem)} :
          /\ vif1' = r.v
          /\ data_mem' = r.mem
          /\ last' = [op |-> "process", dmac |-> dmac, vif1 |-> vif1,
                      vu1 |-> vu1, mem |-> data_mem, log |-> r.log]
    /\ core' = [core EXCEPT !.at = "processed"]
    /\ UNCHANGED <<build, panicked, ram, dmac, vuVars, gsVars, kicks>>

\* stage 4 (lib.rs:81-82): pc is set and run_until_xgkick is entered
FrameStart ==
    /\ ~panicked
    /\ core.at = "processed"
    /\ vu1' = [vu1 EXCEPT !.pc = IF vif1.mscal_addr = None THEN 0
                                 ELSE vif1.mscal_addr[1]]
    /\ vif1' = [vif1 EXCEPT !.mscal_addr = None]
    /\ run' = [Idle EXCEPT !.active = TRUE, !.calls = run.calls + 1]
    /\ core' = [core EXCEPT !.at = "running"]
    /\ last' = [op |-> "start", dmac |-> dmac, vif1 |-> vif1,
                vu1 |-> vu1, mem |-> Mem_new, log |-> last.log]
    /\ UNCHANGED <<build, panicked, ram, dmac, data_mem, code_mem, gsVars,
                   kicks>>

\* the rest of step_frame once the run has returned (lib.rs:83-105): the
\* operation count, the parse, the clear, the triangles, the frame index
FrameEnd ==
    /\ ~panicked
    /\ core.at = "running"
    /\ ~run.active
    /\ \E g \in {parse_gif_packet(data_mem, run.ret[1])} :
          /\ panicked' = g.panic
          /\ fb' = IF g.panic THEN fb
                   ELSE DrawPrims(Framebuffer_clear(Background), g.prims)
          /\ gs' = [op |-> "frame", tri |-> g.prims,
                    cleared |-> IF g.panic THEN gs.cleared ELSE Background,
                    drawn |-> IF g.panic THEN 0 ELSE CountTris(g.prims)]
          /\ core' = Core_ended(core, g.panic)
    /\ last' = [op |-> "frame", dmac |-> dmac, vif1 |-> vif1,
                vu1 |-> vu1, mem |-> data_mem, log |-> <<>>, fb |-> fb]
    /\ UNCHANGED <<build, ram, dmac, vif1, data_mem, vuVars, kicks>>

NextFrame ==
    FrameBuild \/ FrameTransfer \/ FrameProcess \/ FrameStart \/ Cycle
        \/ FrameEnd

SpecFrame == InitFrame /\ [][NextFrame]_vars

----------------------------------------------------------------------------
(* Specification: the framebuffer under clears and triangles (SpecRast) *)

Vtx(x, y, r, g, b) == [x |-> x, y |-> y, r |-> r, g |-> g, b |-> b, a |-> 255]

\* a vertex with an alpha below 255
VtxA(x, y, r, g, b, a) == [Vtx(x, y, r, g, b) EXCEPT !.a = a]

\* the right triangle of legs 10 at the origin in both vertex orders, all
\* red; a small one with a colour and an alpha per vertex; a transparent
\* one that starts left of and above the buffer; three points on a line;
\* one past the far corner; one wholly left of the buffer, whose largest x
\* is negative; one wholly past the far corner
Triangles ==
    { <<Vtx(0, 0, 255, 0, 0), Vtx(10, 0, 255, 0, 0), Vtx(0, 10, 255, 0, 0)>>,
      <<Vtx(0, 0, 255, 0, 0), Vtx(0, 10, 255, 0, 0), Vtx(10, 0, 255, 0, 0)>>,
      <<VtxA(18, 18, 255, 0, 0, 0), VtxA(18, 22, 0, 255, 0, 128),
        Vtx(22, 18, 0, 0, 255)>>,
      <<VtxA(-2, -2, 0, 128, 255, 0), VtxA(-2, 3, 0, 128, 255, 0),
        VtxA(3, -2, 0, 128, 255, 0)>>,
      <<Vtx(1, 1, 9, 9, 9), Vtx(2, 2, 9, 9, 9), Vtx(3, 3, 9, 9, 9)>>,
      <<Vtx(638, 446, 7, 7, 7), Vtx(638, 449, 7, 7, 7), Vtx(641, 446, 7, 7, 7)>>,
      <<Vtx(-9, -1, 5, 5, 5), Vtx(-9, 3, 5, 5, 5), Vtx(-3, -1, 5, 5, 5)>>,
      <<Vtx(700, 500, 5, 5, 5), Vtx(700, 510, 5, 5, 5), Vtx(710, 500, 5, 5, 5)>> }

\* the background step_frame clears to (lib.rs:90), and opaque black
ClearColors == {<<65288, 2580>>, <<65280, 0>>}

InitRast ==
    /\ build = "wasm32_release"
    /\ core = Core_new
    /\ panicked = FALSE
    /\ ram = <<>>
    /\ dmac = [d1_madr |-> 0, d1_qwc |-> 0, d1_chcr |-> 0]
    /\ vif1 = Vif1_new
    /\ data_mem = Mem_new
    /\ vu1 = Vu1_new
    /\ code_mem = Code_new
    /\ run = Idle
    /\ fb = Framebuffer_new
    /\ gs = GsNone
    /\ last = NoOp
    /\ kicks = 0

Clear ==
    /\ \E c \in ClearColors :
          /\ fb' = Framebuffer_clear(c)
          /\ gs' = [op |-> "clear", tri |-> <<>>, cleared |-> c, drawn |-> 0]
    /\ UNCHANGED <<build, core, panicked, ram, dmac, vif1, data_mem, vuVars, last,
                   kicks>>

Rasterize ==
    /\ gs.drawn < MaxTris
    /\ \E t \in Triangles :
          /\ fb' = rasterize_triangle(fb, t[1], t[2], t[3])
          /\ gs' = [gs EXCEPT !.op = "rasterize", !.tri = t, !.drawn = @ + 1]
    /\ UNCHANGED <<build, core, panicked, ram, dmac, vif1, data_mem, vuVars, last,
                   kicks>>

NextRast == Clear \/ Rasterize

SpecRast == InitRast /\ [][NextRast]_vars

----------------------------------------------------------------------------
(* Properties of the transfer engine (SpecDma) *)

\* the last operation was a transfer that found the start bit set
TransferRan == last.op = "transfer" /\ StrBit(last.dmac.d1_chcr) = 1

\* the byte range [madr, madr + 16*qwc) ends past the buffer, as numbers
RangePastEnd(d) == EndPastLen(EndQR(d.d1_madr, d.d1_qwc), Len(ram))

\* the quadword a transfer should push for bytes off..off+15: digit j (most
\* significant first) is the byte at off + 16 - j
LeValue(off) == [j \in 1..16 |-> ram[off + 17 - j]]

\* C1: a transfer of a range that ends past the buffer pushes nothing and
\* clears the start bit, for every address and count.
C1_OutOfRangeAborts ==
    (TransferRan /\ RangePastEnd(last.dmac)) =>
        /\ vif1.fifo = last.vif1.fifo
        /\ StrBit(dmac.d1_chcr) = 0

\* C2: a transfer of an in-bounds range appends exactly qwc entries after the
\* queued ones, entry i the little-endian value of the 16 bytes at
\* madr + 16*i, and clears the start bit.
C2_InBoundsTransfer ==
    (TransferRan /\ ~RangePastEnd(last.dmac)) =>
        /\ ~panicked
        /\ StrBit(dmac.d1_chcr) = 0
        /\ Len(vif1.fifo) = Len(last.vif1.fifo) + last.dmac.d1_qwc
        /\ SubSeq(vif1.fifo, 1, Len(last.vif1.fifo)) = last.vif1.fifo
        /\ \A i \in 0..(last.dmac.d1_qwc - 1) :
              vif1.fifo[Len(last.vif1.fifo) + 1 + i]
                  = LeValue(last.dmac.d1_madr + 16 * i)

C2_Witness ==
    /\ TransferRan /\ ~RangePastEnd(last.dmac)
    /\ last.dmac.d1_qwc >= 2
    /\ last.dmac.d1_madr > 0
    /\ Len(last.vif1.fifo) > 0

----------------------------------------------------------------------------
(* Properties of the packet parser (Spec) *)

Log == last.log

TagOf(e) == LowWord(e.qw)

\* log entry e is an unpack tag with a count above zero, decoded in idle mode
IsUnpack(e) ==
    e.as = "tag" /\ Bits(TagOf(e), 24, 8) = 108 /\ Bits(TagOf(e), 16, 8) > 0

UnpackN(e) == Bits(TagOf(e), 16, 8)

UnpackA(e) == Bits(TagOf(e), 0, 10)

\* the four floats of a payload quadword: lane k is the 32-bit pattern of
\* memory bytes 4k..4k+3, least significant first (byte j is digit 16 - j)
PayloadLane(qw, k) ==
    LET b(j) == qw[16 - (4 * k + j)]
    IN  (IF b(3) >= 128 THEN b(3) - 256 ELSE b(3)) * 16777216
            + b(2) * 65536 + b(1) * 256 + b(0)

PayloadFloats(qw) == [k \in 1..4 |-> PayloadLane(qw, k - 1)]

\* the last operation was a process call that started idle and whose only
\* unpack is the tag at log position t, with all its payload in the call
OneUnpackAt(t) ==
    /\ last.op = "process"
    /\ ~last.vif1.unpack_active
    /\ t \in 1..Len(Log)
    /\ IsUnpack(Log[t])
    /\ t + UnpackN(Log[t]) <= Len(Log)
    /\ \A u \in 1..Len(Log) : IsUnpack(Log[u]) => u = t

\* C3 as stated: slots (A+i) mod 1024 hold the payloads, also past slot 1023
C3_UnpackWraps ==
    \A t \in 1..Len(Log) : OneUnpackAt(t) =>
        LET A == UnpackA(Log[t])
            N == UnpackN(Log[t])
        IN  /\ \A i \in 0..(N - 1) :
                  MemGet(data_mem, (A + i) % VuMemSlots) = PayloadFloats(Log[t + 1 + i].qw)
            /\ \A s \in 0..(VuMemSlots - 1) :
                  (\A i \in 0..(N - 1) : s # (A + i) % VuMemSlots)
                      => MemGet(data_mem, s) = MemGet(last.mem, s)

\* C3 (amended): slot A+i holds the i-th payload for every i with
\* A+i <= 1023; a payload addressed at slot 1024 or above is dropped, not
\* wrapped; no other slot is modified.
C3_UnpackAddressing ==
    \A t \in 1..Len(Log) : OneUnpackAt(t) =>
        LET A == UnpackA(Log[t])
            N == UnpackN(Log[t])
        IN  /\ \A i \in 0..(N - 1) :
                  A + i < VuMemSlots
                      => MemGet(data_mem, A + i) = PayloadFloats(Log[t + 1 + i].qw)
            /\ \A s \in 0..(VuMemSlots - 1) :
                  (s < A \/ s >= A + N) => MemGet(data_mem, s) = MemGet(last.mem, s)

C3_Witness ==
    \E t \in 1..Len(Log) :
        /\ OneUnpackAt(t)
        /\ UnpackA(Log[t]) + UnpackN(Log[t]) > VuMemSlots
        /\ MemGet(data_mem, UnpackA(Log[t])) # MemGet(last.mem, UnpackA(Log[t]))

\* C8: one process call empties the FIFO and handles every queued quadword
\* exactly once, in the order they were pushed.
C8_DrainsInOrder ==
    last.op = "process" =>
        /\ vif1.fifo = <<>>
        /\ [i \in 1..Len(Log) |-> Log[i].qw] = last.vif1.fifo

C8_Witness ==
    /\ last.op = "process"
    /\ Len(last.vif1.fifo) >= 3
    /\ last.vif1.fifo[1] # last.vif1.fifo[2]
    /\ last.vif1.fifo[2] # last.vif1.fifo[3]

\* a command code of the tag grammar
IsCommand(c) == c \in {1, 108, 20, 17}

\* C9: after an unpack tag with count N > 0 decoded in idle mode, the next N
\* quadwords are payload whatever their low word holds, and the one after
\* them is decoded as a tag.
C9_ModeTransitions ==
    last.op = "process" =>
        \A t \in 1..Len(Log) : IsUnpack(Log[t]) =>
            /\ \A i \in 1..UnpackN(Log[t]) :
                  t + i <= Len(Log) => Log[t + i].as = "data"
            /\ t + UnpackN(Log[t]) + 1 <= Len(Log)
                  => Log[t + UnpackN(Log[t]) + 1].as = "tag"

C9_Witness ==
    /\ last.op = "process"
    /\ \E t \in 1..Len(Log) :
          /\ IsUnpack(Log[t])
          /\ UnpackN(Log[t]) = 2
          /\ t + 3 <= Len(Log)
          /\ IsCommand(Bits(TagOf(Log[t + 1]), 24, 8))
          /\ Log[t + 3].as = "tag"

----------------------------------------------------------------------------
(* Properties of the interpreter (SpecVu) *)

\* the last step executed the instruction at the pre-state's pc
Executed == last.op = "cycle" /\ run.exit \in {"none", "kick"}

Pre == last.vu1

LastUpper == CodeGet(code_mem, Pre.pc)[1]

LastLower == CodeGet(code_mem, Pre.pc)[2]

LowerOp == Bits(LastLower, 26, 6)

IsLQI == Executed /\ LowerOp = 58

IsSQI == Executed /\ LowerOp = 62

IsXGKICK == Executed /\ LowerOp = 50

\* the vector register field of LQI and SQI, the index register of each
LowerVf == Bits(LastLower, 21, 5)

LqiIs == Bits(LastLower, 16, 4)

SqiIt == Bits(LastLower, 11, 4)

\* the destination field of the upper slot
UpperFd == Bits(LastUpper, 9, 5)

\* the address an index register held before the instruction
PreAddr(reg) == IF reg = 0 THEN 0 ELSE Pre.vi[reg]

Next16(x) == IF x = 32767 THEN -32768 ELSE x + 1

\* the process call started idle and decoded exactly one unpack tag, at log
\* position t
SoleUnpackAt(t) ==
    /\ last.op = "process"
    /\ ~last.vif1.unpack_active
    /\ t \in 1..Len(Log)
    /\ IsUnpack(Log[t])
    /\ \A u \in 1..Len(Log) : IsUnpack(Log[u]) => u = t

\* the payload quadwords the call consumed after the tag at t
Consumed(t) ==
    IF UnpackN(Log[t]) <= Len(Log) - t THEN UnpackN(Log[t]) ELSE Len(Log) - t

\* C4: an access addressed outside 0..1023 does nothing but its counters
\* advance: an unpack consumes every payload quadword, advancing the address
\* and the remaining count by one each, and writes none of those addressed at
\* 1024 or above; an indexed load or store through an index register outside
\* 0..1023 (negative values included) leaves data memory and the vector
\* registers as they were and still post-increments the index register.
C4_OutOfRangeNoOp ==
    /\ \A t \in 1..Len(Log) : SoleUnpackAt(t) =>
          LET A == UnpackA(Log[t])
              N == UnpackN(Log[t])
              k == Consumed(t)
          IN  /\ vif1.fifo = <<>>
              /\ vif1.unpack_addr = A + k
              /\ vif1.unpack_count = N - k
              /\ \A j \in 1..k : Log[t + j].as = "data"
              /\ \A sl \in 0..(VuMemSlots - 1) :
                    (sl < A \/ sl >= A + k) => MemGet(data_mem, sl) = MemGet(last.mem, sl)
    /\ (IsLQI /\ ~(PreAddr(LqiIs) \in 0..(VuMemSlots - 1))) =>
          /\ data_mem = last.mem
          /\ \A r \in 0..31 : r # UpperFd => vu1.vf[r] = Pre.vf[r]
          /\ vu1.vi[LqiIs] = Next16(Pre.vi[LqiIs])
    /\ (IsSQI /\ ~(PreAddr(SqiIt) \in 0..(VuMemSlots - 1))) =>
          /\ data_mem = last.mem
          /\ \A r \in 0..31 : r # UpperFd => vu1.vf[r] = Pre.vf[r]
          /\ vu1.vi[SqiIt] = Next16(Pre.vi[SqiIt])

\* a load through the largest i16 wrapped the register, after an unpack
\* whose second payload was addressed at slot 1024
C4_Witness ==
    /\ IsLQI
    /\ LowerVf # 0
    /\ Pre.vi[LqiIs] = 32767
    /\ vu1.vi[LqiIs] = -32768
    /\ vif1.unpack_addr = VuMemSlots + 1
    /\ MemGet(data_mem, VuMemSlots - 1) # <<0, 0, 0, 0>>

\* C5: the storage of vector register 0 and of integer register 0 is never
\* written, whatever instruction names them as destination; an instruction
\* that reads them gets (0, 0, 0, 1.0) and 0: a store of VF00 writes that
\* vector, an access indexed by VI00 uses slot 0, a kick of VI00 returns 0.
C5_RegisterZero ==
    /\ vu1.vf[0] = <<0, 0, 0, 0>>
    /\ vu1.vi[0] = 0
    /\ (IsSQI /\ LowerVf = 0 /\ PreAddr(SqiIt) \in 0..(VuMemSlots - 1)) =>
          MemGet(data_mem, PreAddr(SqiIt)) = <<0, 0, 0, F32One>>
    /\ (IsSQI /\ SqiIt = 0 /\ LowerVf # 0) => MemGet(data_mem, 0) = Pre.vf[LowerVf]
    /\ (IsLQI /\ LqiIs = 0 /\ LowerVf # 0 /\ UpperFd # LowerVf) =>
          vu1.vf[LowerVf] = MemGet(last.mem, 0)
    /\ (IsXGKICK /\ LqiIs = 0) => run.ret = Some(0)

\* an instruction whose upper slot stages a full-mask write of a non-zero
\* sum to VF00 while its lower slot stores VF00
C5_Witness ==
    /\ IsSQI /\ LowerVf = 0
    /\ PreAddr(SqiIt) \in 0..(VuMemSlots - 1)
    /\ exec_upper(Pre, LastUpper).staged # None
    /\ UpperFd = 0
    /\ exec_upper(Pre, LastUpper).staged[1][2] = DEST_XYZW
    /\ exec_upper(Pre, LastUpper).staged[1][3][1] # 0
    /\ MemGet(last.mem, PreAddr(SqiIt)) # <<0, 0, 0, F32One>>

\* the upper slot of the last instruction staged a write and its lower slot
\* stored the same register, R # 0, to a slot in range
HazardOn(R) ==
    /\ IsSQI
    /\ LowerVf = R
    /\ R # 0
    /\ exec_upper(Pre, LastUpper).staged # None
    /\ UpperFd = R
    /\ PreAddr(SqiIt) \in 0..(VuMemSlots - 1)

\* C6: when the upper slot writes R and the lower slot stores R, data memory
\* receives R's value from before the instruction, and after the instruction
\* R holds the upper slot's result in the lanes of the mask and its old value
\* in the others.
C6_HazardOrdering ==
    \A R \in 1..31 : HazardOn(R) =>
        LET st == exec_upper(Pre, LastUpper).staged[1]
        IN  /\ MemGet(data_mem, PreAddr(SqiIt)) = Pre.vf[R]
            /\ \A k \in 1..4 :
                  vu1.vf[R][k] = IF MaskHas(st[2], k - 1) THEN st[3][k]
                                 ELSE Pre.vf[R][k]

\* a two-lane multiply of VF01 stored by the same instruction: the new X
\* differs from the old one, which is what memory holds
C6_Witness ==
    /\ HazardOn(1)
    /\ exec_upper(Pre, LastUpper).staged[1][2] = DEST_XY
    /\ vu1.vf[1][1] # Pre.vf[1][1]
    /\ vu1.vf[1][3] = Pre.vf[1][3]
    /\ MemGet(data_mem, PreAddr(SqiIt))[1] = Pre.vf[1][1]

\* the register the kick names
KickIs == Bits(LastLower, 16, 4)

\* a 16-bit two's-complement register value read as u16
AsU16(x) == IF x < 0 THEN x + 65536 ELSE x

\* C30: an instruction whose lower slot is not the kick leaves the call
\* running with no value returned; one whose lower slot is the kick ends
\* the call with the named integer register read as u16, with pc one past
\* the kick, and with the upper slot's result of that instruction in the
\* lanes of its mask (a result for VF00 is discarded by the commit)
C30_KickIsTheExit ==
    /\ (Executed /\ LowerOp # 50) => (run.active /\ run.ret = None)
    /\ (last.op = "cycle" /\ run.exit = "kick") => IsXGKICK
    /\ IsXGKICK =>
          /\ ~run.active
          /\ run.exit = "kick"
          /\ run.ret = Some(AsU16(PreAddr(KickIs)))
          /\ vu1.pc = Pre.pc + 1
          /\ vu1.vi = Pre.vi
          /\ (exec_upper(Pre, LastUpper).staged # None /\ UpperFd # 0) =>
                \A k \in 1..4 :
                    MaskHas(exec_upper(Pre, LastUpper).staged[1][2], k - 1) =>
                        vu1.vf[UpperFd][k]
                            = exec_upper(Pre, LastUpper).staged[1][3][k]

\* a kick of VI01 = -1 returned 65535 from an instruction whose upper slot
\* added into VF01, and VF01 holds the sum
C30_Witness ==
    /\ IsXGKICK
    /\ KickIs = 1
    /\ Pre.vi[1] = -1
    /\ run.ret = Some(65535)
    /\ exec_upper(Pre, LastUpper).staged # None
    /\ UpperFd = 1
    /\ vu1.vf[1] # Pre.vf[1]
    /\ vu1.pc = TestPc + 1

----------------------------------------------------------------------------
(* Properties of the iteration cap (SpecCap) *)

\* the call has returned
Returned == ~run.active /\ run.ret # None

\* C7: a call that returns without a kick and without leaving the program
\* has executed exactly 100,000 instructions and returns 109. Every call
\* returns within 100,000 cycles: while it runs, every iteration so far has
\* executed an instruction and been counted, and the count never passes
\* 100,000.
C7_IterationCap ==
    /\ run.executed <= MAX_CYCLES
    /\ run.cycles <= MAX_CYCLES
    /\ run.active => run.cycles = run.executed
    /\ (Returned /\ run.exit \notin {"kick", "bounds"}) =>
          /\ run.executed = MAX_CYCLES
          /\ run.ret = Some(109)

\* the two-instruction loop ran into the cap: VI02 has counted every second
\* cycle, from 7 and wrapping at 32767
C7_Witness ==
    /\ Returned
    /\ run.exit = "cap"
    /\ run.executed = MAX_CYCLES
    /\ code_mem[TestPc - 1] # Code_new[TestPc - 1]
    /\ vu1.vi[2] = ((7 + (MAX_CYCLES \div 2) + 32768) % 65536) - 32768

----------------------------------------------------------------------------
(* Properties of the rasterizer (SpecRast) *)

\* 0xFF0000FF
Red == <<65280, 255>>

\* the pixels strictly inside the triangle (0,0), (10,0), (0,10)
StrictlyInside == { p \in (1..9) \X (1..9) : p[1] + p[2] < 10 }

\* the last operation drew triangle t into a buffer just cleared
DrewAfterClear(t) == gs.op = "rasterize" /\ gs.tri = t /\ gs.drawn = 1

\* C10 as stated: the vertices in the order (0,0), (10,0), (0,10)
C10_StatedOrder ==
    DrewAfterClear(<<Vtx(0, 0, 255, 0, 0), Vtx(10, 0, 255, 0, 0),
                     Vtx(0, 10, 255, 0, 0)>>) =>
        /\ \A p \in StrictlyInside : PixelAt(fb, p[2] * FB_W + p[1]) = Red
        /\ PixelAt(fb, 20 * FB_W + 20) = gs.cleared

\* C10 (amended): after a clear, the all-red triangle with vertices in the
\* order (0,0), (0,10), (10,0) leaves opaque pure red in every pixel strictly
\* inside it and the clear colour in pixel (20,20).
C10_Containment ==
    DrewAfterClear(<<Vtx(0, 0, 255, 0, 0), Vtx(0, 10, 255, 0, 0),
                     Vtx(10, 0, 255, 0, 0)>>) =>
        /\ \A p \in StrictlyInside : PixelAt(fb, p[2] * FB_W + p[1]) = Red
        /\ PixelAt(fb, 20 * FB_W + 20) = gs.cleared

C10_Witness ==
    /\ DrewAfterClear(<<Vtx(0, 0, 255, 0, 0), Vtx(0, 10, 255, 0, 0),
                        Vtx(10, 0, 255, 0, 0)>>)
    /\ gs.cleared = <<65280, 0>>
    /\ PixelAt(fb, 3 * FB_W + 4) = Red
    /\ PixelAt(fb, 20 * FB_W + 20) = <<65280, 0>>
    /\ Cardinality(DOMAIN fb.px) >= Cardinality(StrictlyInside)

\* the doubled signed area of a triangle, as the claims write it
SignedArea2(t) ==
    (t[2].x - t[1].x) * (t[3].y - t[1].y) - (t[2].y - t[1].y) * (t[3].x - t[1].x)

\* this step is a call of rasterize_triangle on t
RasterizeStep(t) ==
    /\ gs'.op = "rasterize"
    /\ gs'.drawn = gs.drawn + 1
    /\ gs'.tri = t

EdgeValue(a, b, px, py) == (b.x - a.x) * (py - a.y) - (b.y - a.y) * (px - a.x)

\* the three edge values of the point p = <<px, py>> are all <= 0
AllEdgesIn(t, p) ==
    /\ EdgeValue(t[2], t[3], p[1], p[2]) <= 0
    /\ EdgeValue(t[3], t[1], p[1], p[2]) <= 0
    /\ EdgeValue(t[1], t[2], p[1], p[2]) <= 0

\* the pixels of the buffer, as indices py * FB_W + px, whose three edge
\* values against t are all <= 0: every pixel of the buffer is tested
InsideSet(t) ==
    { p[2] * FB_W + p[1] :
        p \in { q \in (0..(FB_W - 1)) \X (0..(FB_H - 1)) : AllEdgesIn(t, q) } }

\* the same set, testing only the pixels of the buffer at most two pixels
\* outside the bounding box of the three vertices
NearSet(t) ==
    LET xs == {t[1].x, t[2].x, t[3].x}
        ys == {t[1].y, t[2].y, t[3].y}
        inX == { c \in 0..(FB_W - 1) :
                   (\E a \in xs : a - 2 <= c) /\ (\E a \in xs : c <= a + 2) }
        inY == { c \in 0..(FB_H - 1) :
                   (\E a \in ys : a - 2 <= c) /\ (\E a \in ys : c <= a + 2) }
    IN  { p[2] * FB_W + p[1] : p \in { q \in inX \X inY : AllEdgesIn(t, q) } }

AlphaOf(c) == c[1] \div 256

\* every pixel of the buffer f has alpha 0xFF
AllOpaque(f) ==
    /\ AlphaOf(f.fill) = 255
    /\ \A j \in DOMAIN f.px : AlphaOf(f.px[j]) = 255

\* the triangle t with the alpha of its three vertices set to 255
Opaque(t) == [i \in 1..3 |-> [t[i] EXCEPT !.a = 255]]

\* C24: after construction, clears with an opaque colour and calls of
\* rasterize_triangle with any vertex alphas, every pixel of the buffer
\* has alpha 0xFF, and a call leaves the buffer it would leave with the
\* three alphas set to 255
C24_AlwaysOpaque ==
    [][/\ AllOpaque(fb)
       /\ AllOpaque(fb')
       /\ \A t \in Triangles :
             RasterizeStep(t) =>
                 fb' = rasterize_triangle(fb, Opaque(t)[1], Opaque(t)[2],
                                          Opaque(t)[3])]_vars

\* a triangle whose vertices have alpha 0, 128 and 255 was drawn
C24_Witness ==
    /\ gs.op = "rasterize"
    /\ gs.tri[1].a = 0
    /\ gs.tri[2].a = 128
    /\ 19 * FB_W + 19 \in DOMAIN fb.px
    /\ AlphaOf(fb.px[19 * FB_W + 19]) = 255

\* the three edge values of pixel j against t, by the closure edge
EdgesAt(t, j) ==
    <<edge(t[2].x, t[2].y, t[3].x, t[3].y, j % FB_W, j \div FB_W),
      edge(t[3].x, t[3].y, t[1].x, t[1].y, j % FB_W, j \div FB_W),
      edge(t[1].x, t[1].y, t[2].x, t[2].y, j % FB_W, j \div FB_W)>>

\* the weight (-w) as f32 / area2f is a value from 0.0 to 1.0
WeightInUnit(w, area2) ==
    /\ ~F32IsNaN(F32Div(F32FromInt(-w), F32FromInt(-area2)))
    /\ F32Div(F32FromInt(-w), F32FromInt(-area2)) \in 0..F32One

----------------------------------------------------------------------------
(* Claims about parse_gif_packet and the frame stages, checked under SpecGif *)

\* the frame stages have run on the slot index the interpreter returned
FrameRan == gs.op = "frame"

\* the slot index the interpreter reported
Base == run.ret[1]

\* C13: parse_gif_packet never indexes vector-register memory outside slots
\* 0..1023, for every starting slot index 0..65535 the interpreter reports
\* and every memory content: no index panic ends the frame.
C13_NoOutOfBounds == FrameRan => ~panicked

\* the descriptors of the claim: loop count L, packed mode, 2 registers,
\* position (XYZ2 = 5) and colour (RGBAQ = 1) in either order
RoundTripTags ==
    { [L |-> L, r0 |-> r[1], r1 |-> r[2],
       words |-> GifTagWords(L, e, e, prim, 2, r[1], r[2])] :
        L \in 1..6, e \in 0..1, prim \in {3, 11}, r \in {<<5, 1>>, <<1, 5>>} }

\* the 8-bit channel of a colour lane, for the lanes the model stores:
\* 0.0, 0.5, 1.0, 2.0, -1.0, NaN
ExpectChannel(b) ==
    CASE b = 0 -> 0
      [] b = F32Half -> 128
      [] b = F32One -> 255
      [] b = 1073741824 -> 255
      [] b = -1082130432 -> 0
      [] b = F32NaN -> 0

\* the vertex of a position slot and a colour slot
ExpectVertex(pos, col) ==
    [x |-> pos[1] \div 16, y |-> pos[2] \div 16,
     r |-> ExpectChannel(col[1]), g |-> ExpectChannel(col[2]),
     b |-> ExpectChannel(col[3]), a |-> ExpectChannel(col[4])]

\* vertex k (from 0) of a packet at Base whose register 0 is r0
ExpectAt(k, r0) ==
    IF r0 = 5
    THEN ExpectVertex(MemGet(data_mem, Base + 1 + 2 * k),
                      MemGet(data_mem, Base + 2 + 2 * k))
    ELSE ExpectVertex(MemGet(data_mem, Base + 2 + 2 * k),
                      MemGet(data_mem, Base + 1 + 2 * k))

\* C14: a descriptor encoded with loop count L, packed mode, 2 registers
\* and types {position, colour} decodes to the same loop count, register
\* count 2 and the same two register types, and parse_gif_packet yields
\* exactly L vertices, vertex k built from the data slots Base+1+2k and
\* Base+2+2k (for the k whose two slots exist).
C14_TagRoundTrip ==
    \A t \in RoundTripTags :
        (FrameRan /\ Base < VuMemSlots
                  /\ MemGet(data_mem, Base) = TagSlot(t.words)) =>
            /\ GifDecode(TagSlot(t.words)).nloop = t.L
            /\ GifDecode(TagSlot(t.words)).nreg = 2
            /\ GifDecode(TagSlot(t.words)).reg0 = t.r0
            /\ GifDecode(TagSlot(t.words)).reg1 = t.r1
            /\ Len(gs.tri) = 1
            /\ Len(gs.tri[1].vertices) = t.L
            /\ \A k \in 0..(t.L - 1) :
                  Base + 2 + 2 * k < VuMemSlots =>
                      gs.tri[1].vertices[k + 1] = ExpectAt(k, t.r0)

\* the spec's case: loop count 3, the six data slots ending in the last
\* slot of the memory, one triangle drawn
C14_Witness ==
    /\ FrameRan
    /\ Base = 1017
    /\ MemGet(data_mem, Base) = TagSlot(GifTagWords(3, 1, 1, 11, 2, 5, 1))
    /\ Len(gs.tri[1].vertices) = 3
    /\ gs.tri[1].vertices[3] = [x |-> 6, y |-> 2, r |-> 0, g |-> 0, b |-> 255,
                                a |-> 255]
    /\ gs.drawn = 1
    /\ DOMAIN fb.px # {}

\* bits [14:0] of the descriptor at Base: the loop count
TagLoopCount == MemGet(data_mem, Base)[1] % 32768

\* bits [60:59] of the descriptor at Base: the packing mode
TagMode == (MemGet(data_mem, Base)[2] \div 134217728) % 4

\* C15: parse_gif_packet returns an empty primitive list whenever the loop
\* count of the descriptor is 0 or its packing mode is not 0, whatever the
\* other fields and the data slots hold; step_frame then rasterizes no
\* triangle and leaves the cleared buffer.
C15_MalformedEmpty ==
    (FrameRan /\ Base < VuMemSlots /\ (TagLoopCount = 0 \/ TagMode # 0)) =>
        /\ ~panicked
        /\ gs.tri = <<>>
        /\ gs.drawn = 0
        /\ fb = Framebuffer_clear(Background)

\* a descriptor with loop count 3 and packing mode 1 in front of the data
\* of a triangle
C15_Witness ==
    /\ FrameRan
    /\ Base = 108
    /\ TagLoopCount = 3
    /\ TagMode = 1
    /\ MemGet(data_mem, Base + 1) = Pos(2, 2, 0)
    /\ gs.tri = <<>>
    /\ fb = Framebuffer_clear(Background)

----------------------------------------------------------------------------
(* Claims about the tags the idle branch ignores, under Spec *)

\* the command byte and the count byte of a handled quadword's tag
CmdOf(e) == e.qw[13]

NumOf(e) == e.qw[14]

\* a flush tag, a tag with an unrecognised command, an unpack tag with
\* count 0
Ignored(e) ==
    /\ e.as = "tag"
    /\ \/ CmdOf(e) = 17
       \/ CmdOf(e) \notin {1, 108, 20, 17}
       \/ CmdOf(e) = 108 /\ NumOf(e) = 0

SetCycle(e) == e.as = "tag" /\ CmdOf(e) = 1

\* the last step was a process call that started in idle mode and handled
\* at least one quadword
ProcessIdle ==
    last.op = "process" /\ ~last.vif1.unpack_active /\ Log # <<>>

SetCycleIdx == { i \in 1..Len(Log) : SetCycle(Log[i]) }

LastSetCycle == Log[CHOOSE i \in SetCycleIdx : \A j \in SetCycleIdx : j <= i]

\* C19: a process call in idle mode that handles only flush tags, tags with
\* unrecognised commands and unpack tags with count 0 leaves the mode, the
\* unpack address and count, the start request, the timing bytes and every
\* data-memory slot as they were; with set-cycle tags among them only the
\* two timing bytes change, to bits 15..8 and 7..0 of the last such tag
C19_IgnoredTags ==
    /\ (ProcessIdle /\ \A i \in 1..Len(Log) : Ignored(Log[i])) =>
          /\ vif1 = [last.vif1 EXCEPT !.fifo = <<>>]
          /\ data_mem = last.mem
    /\ (/\ ProcessIdle
        /\ \A i \in 1..Len(Log) : Ignored(Log[i]) \/ SetCycle(Log[i])
        /\ SetCycleIdx # {}) =>
          /\ vif1 = [last.vif1 EXCEPT !.fifo = <<>>,
                                      !.wl = LastSetCycle.qw[15],
                                      !.cl = LastSetCycle.qw[16]]
          /\ data_mem = last.mem

\* an unpack tag with count 0 and address bits set was handled alone, after
\* an earlier packet had left a start request and a set-cycle value
C19_Witness ==
    /\ ProcessIdle
    /\ Len(Log) = 1
    /\ CmdOf(Log[1]) = 108
    /\ NumOf(Log[1]) = 0
    /\ Log[1].qw[16] = 255
    /\ last.vif1.mscal_addr = Some(40)
    /\ last.vif1.wl = 3
    /\ vif1.mscal_addr = last.vif1.mscal_addr
    /\ vif1.wl = 3
    /\ ~vif1.unpack_active

----------------------------------------------------------------------------
(* Claims about the start of the program and fetches past it, under SpecRun *)

\* an iteration of run_until_xgkick that fetches outside the program
FetchOutside == run.active /\ vu1.pc >= Len(VU1_MICRO)

\* C16: an iteration whose program counter is outside instruction memory
\* ends the call with the fallback address 109, executes no slot, changes
\* no register and no data memory and does not crash; the program counter
\* is always a 16-bit value, also after a branch to a negative target
C16_OutOfRangeFetch ==
    [][/\ run.active => vu1.pc \in 0..65535
       /\ FetchOutside =>
            /\ ~run'.active
            /\ run'.ret = Some(Fallback)
            /\ run'.executed = run.executed
            /\ vu1' = vu1
            /\ data_mem' = data_mem
            /\ ~panicked']_vars

\* a branch to -1 was executed and the fetch at 65535 ended the call
C16_Witness ==
    /\ last.op = "cycle"
    /\ last.vu1.pc = 65535
    /\ run.executed >= 1
    /\ ~run.active
    /\ run.ret = Some(Fallback)
    /\ vu1.vi = last.vu1.vi
    /\ data_mem = last.mem


\* the positions in the log of the quadwords decoded as micro-call tags
MscalIdx == { i \in 1..Len(Log) : Log[i].as = "tag" /\ Log[i].qw[13] = 20 }

\* bits 15..0 of the tag at position i of the log
ExecAddrAt(i) == Log[i].qw[15] * 256 + Log[i].qw[16]

LastMscal == CHOOSE i \in MscalIdx : \A j \in MscalIdx : j <= i

\* C18: after a process call that decoded micro-call tags the recorded
\* request is the 16-bit execution address of the last of them, and the
\* interpreter then starts at that address, whatever the earlier tags asked
C18_LastMicroCallWins ==
    /\ (last.op = "process" /\ MscalIdx # {}) =>
          vif1.mscal_addr = Some(ExecAddrAt(LastMscal))
    /\ (last.op = "start" /\ MscalIdx # {}) =>
          /\ vu1.pc = ExecAddrAt(LastMscal)
          /\ vif1.mscal_addr = None
          /\ run.active

\* the interpreter was started after a process call that decoded three
\* micro-call tags with different addresses
C18_Witness ==
    /\ last.op = "start"
    /\ Cardinality(MscalIdx) = 3
    /\ Cardinality({ ExecAddrAt(i) : i \in MscalIdx }) = 3
    /\ vu1.pc = ExecAddrAt(LastMscal)
    /\ vu1.pc # ExecAddrAt(1)

----------------------------------------------------------------------------
(* Claims about Dmac::transfer with the start bit clear, under SpecDma *)

\* the last step was a call of transfer that found the start bit clear
TransferIdle == last.op = "transfer" /\ StrBit(last.dmac.d1_chcr) = 0

\* C17: a call of transfer with the start bit clear changes neither the
\* FIFO nor the source address, the count or the control word; and a call
\* that returns leaves the start bit clear, so the pushes of one kick
\* happen in one call at most
C17_TransferIdleNoOp ==
    /\ TransferIdle =>
          /\ dmac = last.dmac
          /\ vif1.fifo = last.vif1.fifo
          /\ ~panicked
    /\ (last.op = "transfer" /\ ~panicked) => StrBit(dmac.d1_chcr) = 0

\* transfer was called again after a kick whose quadwords were all pushed,
\* with a count and an address that would push again
C17_Witness ==
    /\ TransferIdle
    /\ kicks >= 1
    /\ last.dmac.d1_qwc \in 1..RamQw
    /\ last.dmac.d1_madr + last.dmac.d1_qwc * 16 <= Len(ram)
    /\ Len(vif1.fifo) = last.dmac.d1_qwc
    /\ dmac = last.dmac


----------------------------------------------------------------------------
(* Claims about the divide, under SpecDiv *)

\* the last step executed a divide
DivRan == Executed /\ Pre.pc < Len(VU1_MICRO) /\ Bits(LastUpper, 0, 9) = 112

\* the divisor lane and the numerator lane the divide selected
Divisor == vf_get(Pre, Bits(LastUpper, 19, 5))[Bits(LastUpper, 9, 2) + 1]

Numerator == vf_get(Pre, Bits(LastUpper, 14, 5))[Bits(LastUpper, 11, 2) + 1]

\* C20: a divide whose divisor lane has a magnitude below 1e-37 (zero of
\* either sign and the subnormals included) leaves Q = +0.0 whatever the
\* numerator lane holds, so neither an infinity nor a NaN
C20_ReciprocalSafety ==
    (DivRan /\ F32Mag(Divisor) < DivEps) =>
        /\ vu1.q = 0
        /\ ~F32IsInf(vu1.q)
        /\ ~F32IsNaN(vu1.q)

\* an infinity was divided by the smallest subnormal while Q held a NaN
C20_Witness ==
    /\ DivRan
    /\ Divisor = 1
    /\ Numerator = F32Inf(0)
    /\ F32IsNaN(Pre.q)
    /\ vu1.q = 0


----------------------------------------------------------------------------
(* Claims about the fixed-point positions, under SpecFix *)

\* the case of the lane value b
CaseOf(b) == CHOOSE c \in FixCases : c.f = b

\* C21: for lanes X and Y of VF01 holding f with k = round(f * 16) in the
\* i32 range, after the conversion, the store and the frame's decode the
\* lane of VF15 and the lane of the stored slot both hold the 32-bit
\* pattern of k, and the decoded coordinate is floor(k / 16)
C21_FixedPointRoundTrip ==
    (FrameRan /\ ~panicked) =>
        \A i \in 1..2 :
            /\ vu1.vf[15][i] = CaseOf(vu1.vf[1][i]).k
            /\ MemGet(data_mem, FixBase + 1)[i] = CaseOf(vu1.vf[1][i]).k
            /\ to_bits(MemGet(data_mem, FixBase + 1)[i])
                 = <<(CaseOf(vu1.vf[1][i]).k \div 65536) % 65536,
                     CaseOf(vu1.vf[1][i]).k % 65536>>
            /\ Len(gs.tri) = 1
            /\ Len(gs.tri[1].vertices) = 1
            /\ (IF i = 1 THEN gs.tri[1].vertices[1].x
                ELSE gs.tri[1].vertices[1].y) = CaseOf(vu1.vf[1][i]).q

\* x = -1/32 gave k = -1 and the coordinate -1; y = 320.7 gave 5131 and 320
C21_Witness ==
    /\ FrameRan
    /\ vu1.vf[1][1] = -1124073472
    /\ vu1.vf[1][2] = 1134582170
    /\ MemGet(data_mem, FixBase + 1)[1] = -1
    /\ MemGet(data_mem, FixBase + 1)[2] = 5131
    /\ gs.tri[1].vertices[1].x = -1
    /\ gs.tri[1].vertices[1].y = 320

----------------------------------------------------------------------------
(* Claims about whole frames, under SpecFrame *)

\* a call of step_frame has returned
FrameDone == last.op = "frame" /\ ~panicked

\* the parser is idle, nothing waits in the FIFO and no unpack is owed
VifDrained ==
    /\ vif1.fifo = <<>>
    /\ ~vif1.unpack_active
    /\ vif1.unpack_count = 0

\* the payload quadwords of the packet: the descriptor, three times 36
\* vertex attributes, four matrix columns, the light and the viewport
PayloadQws == 1 + (3 * Len(CUBE)) + 4 + 1 + 1

HandledAs(log, kind) == {t \in 1..Len(log) : log[t].as = kind}

\* C22: from the process call of a frame on, and so at the end of every
\* step_frame, the FIFO is empty and the parser is idle with unpack count
\* 0; the process call found the parser idle, handled the 125 quadwords of
\* the packet, the payload as data and the rest as tags, and decoded the
\* first quadword of the packet as a tag.
C22_PacketConsumed ==
    /\ core.at \in {"idle", "processed", "running"} => VifDrained
    /\ (last.op = "process" /\ core.at = "processed") =>
          /\ ~last.vif1.unpack_active
          /\ Len(last.vif1.fifo) = PACKET_QWC
          /\ Len(last.log) = PACKET_QWC
          /\ last.log[1].as = "tag"
          /\ last.log[1].qw = QwAt(ram, 0)
          /\ Cardinality(HandledAs(last.log, "data")) = PayloadQws
          /\ Cardinality(HandledAs(last.log, "tag")) = PACKET_QWC - PayloadQws

\* the second frame's packet has been processed after a first frame that
\* ran the whole program
C22_Witness ==
    /\ core.frame = 2
    /\ core.frame_count = 1
    /\ last.op = "process"
    /\ run.exit = "kick"
    /\ Len(last.log) = PACKET_QWC
    /\ last.log[1].as = "tag"
    /\ VifDrained

\* the pixels a call of rasterize_triangle on the vertices vs[i..i+2] may
\* write: none when it is culled
CoveredBy(vs, i) ==
    IF SignedArea2(SubSeq(vs, i, i + 2)) >= 0 THEN {}
    ELSE NearSet(SubSeq(vs, i, i + 2))

\* the pixels covered by the non-culled triangles of the primitives prims
Covered(prims) ==
    UNION { UNION { CoveredBy(prims[n].vertices, 3 * c - 2) :
                      c \in 1..(Len(prims[n].vertices) \div 3) } :
            n \in 1..Len(prims) }

LoopHead == 13

LoopLen == 27

KickPc == 40

\* the run of the frame has returned and the frame has not gone on yet
RunReturned == core.at = "running" /\ ~run.active

PacketTag == TagSlot(GifTagWords(36, 1, 1, 11, 2, 5, 1))

\* the run returned the fallback address
FellBack == ~run.active /\ run.exit \in {"cap", "bounds"}

\* C28 as stated: after a fallback the returned address is the slot that
\* holds the descriptor loaded by the packet, and the frame's parse
\* decodes that descriptor into its 36 vertices.  It does not hold: the
\* fallback is 109, the descriptor is at slot 108.
C28_FallbackIsGifBase ==
    (FellBack /\ core.at \in {"running", "idle"}) =>
        /\ MemGet(data_mem, run.ret[1]) = PacketTag
        /\ FrameDone =>
              /\ Len(gs.tri) = 1
              /\ Len(gs.tri[1].vertices) = GifDecode(PacketTag).nloop

\* the vertex the parser builds from slots 109 + 2k and 110 + 2k
SlotVertex(pos, col) ==
    [x |-> pos[1] \div 16, y |-> pos[2] \div 16,
     r |-> Channel(col[1]), g |-> Channel(col[2]),
     b |-> Channel(col[3]), a |-> Channel(col[4])]

VertexAt(k) ==
    SlotVertex(MemGet(data_mem, 109 + (2 * k)), MemGet(data_mem, 110 + (2 * k)))

\* the iteration (from 0) of the loop the interpreter is in
Iteration == Len(CUBE) - Pre.vi[3]

----------------------------------------------------------------------------
(* Claims about the masked commit and the reciprocal countdown, under SpecVu *)

\* the registers as the lower slot of the last instruction left them, just
\* before the staged write is committed (vu1.rs:325-328)
BeforeCommit ==
    exec_lower(exec_upper(Pre, LastUpper).v, last.mem, LastLower).v

\* the last instruction staged a write for a vector register other than VF00
StagedNonZero ==
    /\ Executed
    /\ exec_upper(Pre, LastUpper).staged # None
    /\ UpperFd # 0

\* C31: committing a staged result to vector register R # 0 with mask m
\* changes lane X only if bit 3 of m is set, Y only if bit 2, Z only if
\* bit 1, W only if bit 0, and a lane whose bit is set receives the staged
\* value; the lanes whose bit is clear and every other vector register keep
\* the values they had before the commit, so mask 0 changes nothing.
C31_MaskedCommit ==
    StagedNonZero =>
        /\ \A k \in 1..4 :
              vu1.vf[UpperFd][k]
                  = IF (Bits(LastUpper, 24, 4) \div 2^(4 - k)) % 2 = 1
                    THEN exec_upper(Pre, LastUpper).staged[1][3][k]
                    ELSE BeforeCommit.vf[UpperFd][k]
        /\ \A r \in 0..31 : r # UpperFd => vu1.vf[r] = BeforeCommit.vf[r]
        /\ Bits(LastUpper, 24, 4) = 0 => vu1.vf = BeforeCommit.vf

\* a subtraction staged for VF03 with mask 5 (Y and W): all four staged
\* lanes differ from the old ones, Y and W were replaced, X and Z kept
C31_Witness ==
    /\ StagedNonZero
    /\ UpperFd = 3
    /\ Bits(LastUpper, 24, 4) = 5
    /\ \A k \in 1..4 :
          exec_upper(Pre, LastUpper).staged[1][3][k] # BeforeCommit.vf[3][k]
    /\ vu1.vf[3][2] # Pre.vf[3][2]
    /\ vu1.vf[3][4] # Pre.vf[3][4]
    /\ vu1.vf[3][1] = Pre.vf[3][1]
    /\ vu1.vf[3][3] = Pre.vf[3][3]

\* a write staged with mask 0 for VF03, whose staged lanes are not the old
C31_WitnessMaskZero ==
    /\ StagedNonZero
    /\ UpperFd = 3
    /\ Bits(LastUpper, 24, 4) = 0
    /\ exec_upper(Pre, LastUpper).staged[1][3] # Pre.vf[3]
    /\ vu1.vf = Pre.vf

\* the 9-bit opcode of the upper slot of the last instruction
UpperOp == Bits(LastUpper, 0, 9)

\* C32: the reciprocal countdown is always in 0..7; an executed divide
\* leaves it at 7, the stall-on-reciprocal instruction leaves it at 0, and
\* any other executed instruction leaves it one below what it was, or at 0
\* if it was 0 (the decrement comes first, so a divide leaves 7 and not 6);
\* a step that executes no instruction leaves it alone.
C32_Countdown ==
    /\ vu1.div_busy \in 0..DivLatency
    /\ Executed =>
          vu1.div_busy = CASE UpperOp = 112 -> DivLatency
                           [] UpperOp = 115 -> 0
                           [] OTHER -> IF Pre.div_busy > 0
                                       THEN Pre.div_busy - 1 ELSE 0
    /\ (last.op = "cycle" /\ ~Executed) => vu1.div_busy = Pre.div_busy
    /\ last.op \in {"kick", "transfer", "process", "run"} =>
          vu1.div_busy = Pre.div_busy

\* the kick, an instruction with no divide and no stall, took the countdown
\* from 6 to 5 in a call that started with 7
C32_Witness ==
    /\ Executed
    /\ IsXGKICK
    /\ ~(UpperOp \in {112, 115})
    /\ Pre.pc = TestPc + 1
    /\ Pre.div_busy = DivLatency - 1
    /\ vu1.div_busy = DivLatency - 2

----------------------------------------------------------------------------
(* Claims about the grouping into triangles, under SpecGif *)

\* the vertices the frame decoded (parse_gif_packet returns at most one
\* primitive)
FrameVerts == IF gs.tri = <<>> THEN <<>> ELSE gs.tri[1].vertices

\* the pixels the k-th consecutive triple writes, and their colours
TriplePx(k) ==
    rasterize_triangle(Framebuffer_clear(Background), FrameVerts[(3 * k) + 1],
                       FrameVerts[(3 * k) + 2], FrameVerts[(3 * k) + 3]).px

\* the same for every whole triple of the decoded vertices
TriplesPx == [k \in 0..((Len(FrameVerts) \div 3) - 1) |-> TriplePx(k)]

\* the triples 0..k with pixels px laid over each other, a later one
\* hiding an earlier one
RECURSIVE Overlay(_, _)
Overlay(px, k) ==
    IF k < 0 THEN Framebuffer_new.px ELSE px[k] @@ Overlay(px, k - 1)

\* f holds what the n triples with pixels px leave when drawn in ascending
\* order on the clear colour
DrawnInOrder(f, px, n) ==
    /\ f.px = Overlay(px, n - 1)
    /\ f.fill = Background

\* C33: the frame rasterizes the consecutive non-overlapping triples
\* (v[3k], v[3k+1], v[3k+2]) in ascending k and nothing else: it makes
\* floor(n / 3) calls, every pixel has the colour of the last triple that
\* covers it, or the clear colour when no triple covers it, so a trailing
\* group of one or two vertices draws nothing.
C33_Triples ==
    (FrameRan /\ ~panicked) =>
        /\ gs.drawn = Len(FrameVerts) \div 3
        /\ DrawnInOrder(fb, TriplesPx, Len(FrameVerts) \div 3)

\* five vertices: the first triple drew, the two left over did not, though
\* a triple starting at the second vertex would have written pixels
C33_Witness ==
    /\ FrameRan /\ ~panicked
    /\ Len(FrameVerts) = 5
    /\ gs.drawn = 1
    /\ DOMAIN fb.px = DOMAIN TriplePx(0)
    /\ DOMAIN fb.px # {}

\* six vertices in two overlapping triangles: a shared pixel has the second
\* triangle's colour, which is not the first one's
C33_WitnessOverwrite ==
    /\ FrameRan /\ ~panicked
    /\ Len(FrameVerts) = 6
    /\ \E j \in DOMAIN TriplePx(0) \cap DOMAIN TriplePx(1) :
          /\ TriplePx(0)[j] # TriplePx(1)[j]
          /\ fb.px[j] = TriplePx(1)[j]
    /\ \E j \in DOMAIN TriplePx(0) : j \notin DOMAIN TriplePx(1)

----------------------------------------------------------------------------
(* Claims about the bounds of the rasterizer, under SpecRast *)

\* the smallest and the largest of three integers
Least3(a, b, c) == Min2(Min2(a, b), c)

Most3(a, b, c) == Max2(Max2(a, b), c)

\* index j is py * 640 + px of a pixel of the buffer that lies in the
\* bounding box of t
InBufferBox(t, j) ==
    /\ 0 <= j
    /\ j < FB_W * FB_H
    /\ Least3(t[1].x, t[2].x, t[3].x) <= j % FB_W
    /\ j % FB_W <= Most3(t[1].x, t[2].x, t[3].x)
    /\ Least3(t[1].y, t[2].y, t[3].y) <= j \div FB_W
    /\ j \div FB_W <= Most3(t[1].y, t[2].y, t[3].y)

\* C34: rasterize_triangle writes only indices py * 640 + px with
\* 0 <= px <= 639 and 0 <= py <= 447 of pixels in the triangle's bounding
\* box, whatever the vertex coordinates: partly or wholly outside the
\* buffer, negative, or past the last column and row. Every pixel it adds
\* or changes is such an index; no index outside the buffer is ever held.
C34_WritesInBuffer ==
    [][/\ \A t \in Triangles :
             RasterizeStep(t) =>
                 \A j \in DOMAIN fb'.px :
                     \/ j \in DOMAIN fb.px /\ fb'.px[j] = fb.px[j]
                     \/ InBufferBox(t, j)
       /\ \A j \in DOMAIN fb'.px : j \in 0..((FB_W * FB_H) - 1)]_vars

\* the triangle past the far corner was drawn after the one that starts
\* left of and above the buffer: the first and the last pixel are written
C34_Witness ==
    /\ gs.op = "rasterize"
    /\ gs.tri[3].x = FB_W + 1
    /\ gs.tri[2].y = FB_H + 1
    /\ 0 \in DOMAIN fb.px
    /\ ((FB_W * FB_H) - 1) \in DOMAIN fb.px
    /\ fb.px[0] # fb.px[(FB_W * FB_H) - 1]

\* the triangle whose largest x is negative was the last call, on a buffer
\* that holds pixels: it wrote none
C34_WitnessLeft ==
    /\ gs.op = "rasterize"
    /\ Most3(gs.tri[1].x, gs.tri[2].x, gs.tri[3].x) < 0
    /\ SignedArea2(gs.tri) < 0
    /\ gs.drawn = 2
    /\ Cardinality(DOMAIN fb.px) = 4

----------------------------------------------------------------------------
(* Claims about the built-in program's divide and its stores, under SpecFrame *)

\* the slots of the divide, the stall and the multiply by Q
DivPc == 20

WaitPc == 29

MulqPc == 30

\* the last step executed the built-in program's instruction at slot p
RanAt(p) == code_mem = Code_new /\ Executed /\ Pre.pc = p

\* C35: in the built-in program the divide at slot 20 starts the countdown
\* at 7, the seven instructions at slots 21..27 take it to 0 one by one
\* without dividing again, so it is 0 before slot 28, before the stall at
\* slot 29 and before the multiply by Q at slot 30 execute; Q is not
\* changed from slot 21 to slot 30, so the multiply uses the quotient of the
\* divide of the same iteration.
C35_ReciprocalReady ==
    /\ RanAt(DivPc) =>
          /\ UpperOp = 112
          /\ vu1.div_busy = DivLatency
          /\ vu1.q = IF BelowEps(Pre.vf[15][4]) THEN 0
                     ELSE F32Div(F32One, Pre.vf[15][4])
    /\ \A p \in (DivPc + 1)..(DivPc + DivLatency) : RanAt(p) =>
          /\ Pre.div_busy = DivLatency - (p - (DivPc + 1))
          /\ vu1.div_busy = Pre.div_busy - 1
          /\ ~(UpperOp \in {112, 115})
    /\ \A p \in (DivPc + 1)..MulqPc : RanAt(p) => vu1.q = Pre.q
    /\ \A p \in (DivPc + DivLatency + 1)..MulqPc : RanAt(p) =>
          Pre.div_busy = 0 /\ vu1.div_busy = 0
    /\ RanAt(WaitPc) => UpperOp = 115
    /\ RanAt(MulqPc) =>
          /\ UpperOp = 28
          /\ \A k \in 1..3 : vu1.vf[15][k] = F32Mul(Pre.vf[15][k], Pre.q)
          /\ vu1.vf[15][4] = Pre.vf[15][4]

\* the multiply by Q of the second iteration ran with the countdown at 0
\* and a quotient that is neither 0 nor 1, and changed the position
C35_Witness ==
    /\ RanAt(MulqPc)
    /\ Pre.vi[3] = Len(CUBE) - 1
    /\ Pre.div_busy = 0
    /\ Pre.q # 0
    /\ Pre.q # F32One
    /\ vu1.vf[15] # Pre.vf[15]

\* the slots the packet fills: positions, normals and colours of the 36
\* vertices, the descriptor, and the six constants
InputSlots == 0..((3 * Len(CUBE)) - 1)

DescriptorSlot == 3 * Len(CUBE)

OutputSlots == (DescriptorSlot + 1)..(DescriptorSlot + (2 * Len(CUBE)))

ConstSlots == 182..187

\* C36: started at slot 0, the built-in program stores only to data-memory
\* slots 109..180: iteration i (from 0) stores to 109 + 2i at slot 36 and
\* to 110 + 2i at slot 37, so in ascending order, and no instruction
\* changes any other slot (the descriptor slot 108, the inputs 0..107 and
\* the constants 182..187 included); the loads of slots 7..12 read slots
\* 182..187 and the loads of slots 13, 14, 15 of iteration i read slots
\* i, 36 + i and 72 + i.
C36_StoresStayInOutput ==
    (code_mem = Code_new /\ Executed) =>
        /\ \A sl \in 0..(VuMemSlots - 1) :
              sl \notin OutputSlots => MemGet(data_mem, sl) = MemGet(last.mem, sl)
        /\ IsSQI =>
              /\ Pre.pc \in {36, 37}
              /\ PreAddr(SqiIt) = DescriptorSlot + 1 + (2 * Iteration) + (Pre.pc - 36)
              /\ PreAddr(SqiIt) \in OutputSlots
              /\ \A sl \in 0..(VuMemSlots - 1) :
                    sl # PreAddr(SqiIt) => MemGet(data_mem, sl) = MemGet(last.mem, sl)
              /\ MemGet(data_mem, PreAddr(SqiIt)) = Pre.vf[LowerVf]
        /\ ~IsSQI => data_mem = last.mem
        /\ IsLQI =>
              /\ Pre.pc \in 7..15
              /\ PreAddr(LqiIs) \in InputSlots \cup ConstSlots
              /\ Pre.pc \in 7..12 => PreAddr(LqiIs) = 182 + (Pre.pc - 7)
              /\ Pre.pc \in 13..15 =>
                    PreAddr(LqiIs) = (Len(CUBE) * (Pre.pc - 13)) + Iteration

\* the last store of the first frame: slot 180 received the last colour,
\* which differs from what the slot held, while the descriptor, the first
\* position and the first constant are what the packet put there
C36_Witness ==
    /\ code_mem = Code_new
    /\ IsSQI
    /\ core.frame = 1
    /\ Pre.pc = 37
    /\ Iteration = Len(CUBE) - 1
    /\ PreAddr(SqiIt) = 180
    /\ MemGet(data_mem, 180) # MemGet(last.mem, 180)
    /\ MemGet(data_mem, DescriptorSlot) # <<0, 0, 0, 0>>
    /\ MemGet(data_mem, 0) # <<0, 0, 0, 0>>
    /\ MemGet(data_mem, 182) # <<0, 0, 0, 0>>

----------------------------------------------------------------------------
(* Claims about the slots after the program, under SpecRun *)

\* the program counter is past the built-in program and inside instruction
\* memory, and the cap has not ended the call
FetchPastProgram ==
    /\ run.active
    /\ run.cycles < MAX_CYCLES
    /\ vu1.pc \in Len(VU1_MICRO)..(CodeSlots - 1)

\* C37: an iteration whose program counter is 41 or more and below 512 ends
\* the call with the fallback address and executes nothing: registers,
\* data memory and the executed count stay as they were, whatever the slot
\* holds; every instruction that is executed was fetched below slot 41.
C37_ProgramLengthBound ==
    [][/\ FetchPastProgram =>
             /\ ~run'.active
             /\ run'.ret = Some(Fallback)
             /\ run'.exit = "bounds"
             /\ run'.executed = run.executed
             /\ vu1' = vu1
             /\ data_mem' = data_mem
       /\ (last'.op = "cycle" /\ run'.exit \in {"none", "kick"}) =>
             last'.vu1.pc < Len(VU1_MICRO)]_vars

\* the call ended at slot 41, which holds an addition into VF01 and a kick
\* of VI01 = 5 written after construction: the call returned 109, not 5,
\* and VF01 is unchanged
C37_Witness ==
    /\ last.op = "cycle"
    /\ Pre.pc = Len(VU1_MICRO)
    /\ CodeGet(code_mem, Pre.pc) # CodeGet(Code_new, Pre.pc)
    /\ Bits(CodeGet(code_mem, Pre.pc)[2], 26, 6) = 50
    /\ Pre.vi[1] = 5
    /\ run.ret = Some(Fallback)
    /\ run.exit = "bounds"
    /\ vu1 = Pre

\* the same at the last slot of instruction memory, reached by a branch
C37_WitnessLast ==
    /\ last.op = "cycle"
    /\ Pre.pc = CodeSlots - 1
    /\ CodeGet(code_mem, Pre.pc) # CodeGet(Code_new, Pre.pc)
    /\ run.executed >= 1
    /\ run.ret = Some(Fallback)
    /\ data_mem = last.mem

----------------------------------------------------------------------------
(* Claims about descriptors at the end of memory and about the packing
   mode, under SpecGif *)

\* the descriptor the frame decoded
FrameTag == GifDecode(MemGet(data_mem, Base))

\* the slot at which the i-th vertex (from 1) starts if every vertex before
\* it took a slot per register
VertexSlot(i) == Base + 1 + ((i - 1) * FrameTag.nreg)

\* the read index after n vertices, started at cur: the inner loop n times
RECURSIVE CurAfter(_, _)
CurAfter(n, cur) ==
    IF n = 0 THEN cur
    ELSE CurAfter(n - 1, ReadRegs(data_mem, FrameTag, 0, cur, Vertex0)[2])

\* C38: a descriptor with loop count L > 0 and packing mode 0 yields exactly
\* one primitive with exactly L vertices, also when its data slots run past
\* slot 1023: a vertex whose first slot would be 1024 or more has colour
\* (0, 0, 0, 255) and position (0, 0), a vertex before it holds what its
\* slots below 1024 decode to, and the read index ends at most at 1024.
C38_VerticesPastTheEnd ==
    (FrameRan /\ ~panicked /\ FrameTag.nloop > 0 /\ FrameTag.flg = 0) =>
        /\ Len(gs.tri) = 1
        /\ Len(gs.tri[1].vertices) = FrameTag.nloop
        /\ \A i \in 1..FrameTag.nloop :
              IF VertexSlot(i) >= VuMemSlots
              THEN gs.tri[1].vertices[i]
                      = [r |-> 0, g |-> 0, b |-> 0, a |-> 255, x |-> 0, y |-> 0]
              ELSE gs.tri[1].vertices[i]
                      = ReadRegs(data_mem, FrameTag, 0, VertexSlot(i), Vertex0)[1]
        /\ CurAfter(FrameTag.nloop, Base + 1) <= VuMemSlots
        /\ CurAfter(FrameTag.nloop, Base + 1)
              = Min2(VertexSlot(FrameTag.nloop + 1), VuMemSlots)

\* a descriptor at slot 1021 with three vertices of two slots each: the
\* first vertex was read from slots 1022 and 1023, the other two were
\* emitted with the default values
C38_Witness ==
    /\ FrameRan /\ ~panicked
    /\ Base = VuMemSlots - 3
    /\ FrameTag.nloop = 3
    /\ FrameTag.nreg = 2
    /\ Len(gs.tri[1].vertices) = 3
    /\ gs.tri[1].vertices[1] # Vertex0
    /\ gs.tri[1].vertices[2] = Vertex0
    /\ gs.tri[1].vertices[3] = Vertex0

\* a descriptor at slot 1023, with no data slot at all
C38_WitnessLastSlot ==
    /\ FrameRan /\ ~panicked
    /\ Base = VuMemSlots - 1
    /\ FrameTag.nloop = 6
    /\ Len(gs.tri[1].vertices) = 6
    /\ \A i \in 1..6 : gs.tri[1].vertices[i] = Vertex0

\* the register count as the descriptor holds it, bits [63:60] of the low
\* 64 bits
RawNreg == Bits(to_bits(MemGet(data_mem, Base)[2]), 28, 4)

C39_WitnessZero ==
    /\ FrameRan /\ ~panicked
    /\ RawNreg = 0
    /\ FrameTag.nreg = 1
    /\ gs.tri # <<>>
    /\ Len(gs.tri[1].vertices) = 3

----------------------------------------------------------------------------
(* Claims about the unpacking mode across calls, under Spec *)

\* the parser as the last process call found it
Found == last.vif1

\* the number of queued quadwords the pending unpack takes
Taken == Min2(Found.unpack_count, Len(Found.fifo))

\* C40: the unpacking mode persists between calls of Vif1::process: the
\* parser is in unpacking mode exactly when its remaining count is above 0,
\* a kick or a transfer changes neither the mode, the address nor the
\* count, and a call that finds the parser unpacking with count r at
\* address a handles the first min(r, queued) quadwords as payload at a,
\* a + 1, ... (stored when the address is below 1024) and the next
\* quadword, if any, as a tag; a call that takes fewer than r leaves the
\* parser unpacking with what remains.
C40_UnpackPersists ==
    /\ vif1.unpack_active <=> vif1.unpack_count > 0
    /\ last.op \in {"kick", "transfer"} =>
          /\ vif1.unpack_active = Found.unpack_active
          /\ vif1.unpack_addr = Found.unpack_addr
          /\ vif1.unpack_count = Found.unpack_count
    /\ (last.op = "process" /\ Found.unpack_active) =>
          /\ Len(last.log) = Len(Found.fifo)
          /\ \A j \in 1..Taken :
                /\ last.log[j].as = "data"
                /\ last.log[j].qw = Found.fifo[j]
                /\ last.log[j].addr = Found.unpack_addr + (j - 1)
                /\ last.log[j].stored = (Found.unpack_addr + (j - 1) < VuMemSlots)
          /\ Len(Found.fifo) > Taken => last.log[Taken + 1].as = "tag"
          /\ Len(Found.fifo) < Found.unpack_count =>
                /\ vif1.unpack_active
                /\ vif1.unpack_addr = Found.unpack_addr + Len(Found.fifo)
                /\ vif1.unpack_count = Found.unpack_count - Len(Found.fifo)
                /\ vif1.mscal_addr = Found.mscal_addr

\* an earlier call ended after the tag of an unpack of two quadwords to
\* slot 1023; this call found a micro-call tag and an unpack tag queued and
\* handled both as payload: the first is stored in slot 1023, no start
\* request is recorded and the parser is idle
C40_Witness ==
    /\ last.op = "process"
    /\ Found.unpack_active
    /\ Found.unpack_count = 2
    /\ Found.unpack_addr = VuMemSlots - 1
    /\ Len(Found.fifo) = 2
    /\ Bits(LowWord(Found.fifo[1]), 24, 8) = 20
    /\ Bits(LowWord(Found.fifo[2]), 24, 8) = 108
    /\ last.log[1].stored
    /\ MemGet(data_mem, VuMemSlots - 1) # MemGet(last.mem, VuMemSlots - 1)
    /\ vif1.mscal_addr = None
    /\ ~vif1.unpack_active

\* a call that found the parser unpacking and left it unpacking
C40_WitnessStillUnpacking ==
    /\ last.op = "process"
    /\ Found.unpack_active
    /\ Len(Found.fifo) = 1
    /\ Found.unpack_count = 2
    /\ vif1.unpack_active
    /\ vif1.unpack_count = 1

============================================================================
